---- MODULE Spec2Model ----
(***************************************************************************)
(* The /generate-multi-scene pipeline of vixio-backend: media resolution,  *)
(* script generation, per-slot rendering and stitching, as one request     *)
(* handler working in the shared output/ directory.                        *)
(*                                                                         *)
(* The repository holds the handler in several iterations: main.go and the *)
(* other iterations kept next to it.  They share the control flow and      *)
(* differ in the type of the script items, in whether the item list is     *)
(* padded after script generation, in whether stitchVideos refuses an      *)
(* empty list, in how speech is synthesised, in the encoder settings and   *)
(* in some error texts.  The variable build names the iteration that       *)
(* runs; it is chosen once and never changes.                              *)
(***************************************************************************)
EXTENDS Integers, Sequences, FiniteSets, TLC

\* ------------------------------------------------------------------ bounds
MaxScenes == 2
MaxItems == 3
MaxTextLen == 5
MaxChunkLimit == 4

LiveScenes == 1
MaxChunks == 2

\* ------------------------------------------------------------ iterations
\* main: main.go.  early: part_001 up to its second package clause.
\* google: part_002.  chunked and padded: the first and the second half of
\* part_003.  padded_chunked: the second half of part_001.
Builds == {"main", "early", "google", "chunked", "padded", "padded_chunked"}

\* ScriptResponse.Items is []string in these, []ScriptItem in the others.
StringItemBuilds == {"main", "early", "google"}

\* Speech comes from OpenAI and needs OPENAI_API_KEY in these.
OpenAIBuilds == {"main", "early"}

\* Speech comes from Google in one request in these.
GoogleBuilds == {"google", "padded"}

\* stitchVideos returns an error of its own for an empty list in these, and
\* writes absolute paths into list.txt.
GuardedBuilds == {"chunked", "padded_chunked"}

\* stitchVideos wraps the exit status and the output of the tool in these.
WrappingBuilds == {"chunked", "padded", "padded_chunked"}

\* ------------------------------------------------------------------ slots
SceneSlot(i) == ToString(i)

SceneSlots(cnt) == {SceneSlot(i) : i \in 0..(cnt - 1)}

Slots(cnt) == {"intro", "outro"} \cup SceneSlots(cnt)

\* The order in which the handler resolves media: intro, outro, scenes.
MediaOrder(cnt) == <<"intro", "outro">> \o [i \in 1..cnt |-> SceneSlot(i - 1)]

\* The order of the final video: intro, scene 0 .. scene n-1, outro.
SlotOrder(cnt) == <<"intro">> \o [i \in 1..cnt |-> SceneSlot(i - 1)] \o <<"outro">>

\* ------------------------------------------------------------------ paths
\* A path is kept in its parts: directory, stem, slot key and extension. The
\* extension is the sequence of its characters, the dot first.
Path(dir, stem, slot, ext) == [dir |-> dir, stem |-> stem, slot |-> slot, ext |-> ext]

NoPath == Path("", "", "", <<>>)

ExtJpg == <<".", "j", "p", "g">>

ExtMp4 == <<".", "m", "p", "4">>

ExtMp3 == <<".", "m", "p", "3">>

ExtMov == <<".", "m", "o", "v">>

ExtAvi == <<".", "a", "v", "i">>

MediaPath(slot, ext) == Path("output", "media", slot, ext)

SegPath(slot) == Path("output", "seg", slot, ExtMp4)

\* strings.Replace(outputPath, ".mp4", ".mp3", 1): the clip paths the handler
\* passes hold .mp4 once, as their extension.
AudioPath(outputPath) ==
    IF outputPath.ext = ExtMp4 THEN [outputPath EXCEPT !.ext = ExtMp3] ELSE outputPath

ListPath == Path("output", "list", "", <<".", "t", "x", "t">>)

FinalPath == Path("output", "final_movie", "", ExtMp4)

Base(p) == [p EXCEPT !.dir = ""]

Abs(p) == [p EXCEPT !.dir = "/app/output"]

\* The concat demuxer opens a relative entry relative to the list file's
\* directory, and an absolute entry as it is: both name the file in output/.
Resolve(entry) == [entry EXCEPT !.dir = "output"]

\* ------------------------------------------------------------------ files
File(kind, owner, text, media, list) ==
    [kind |-> kind, owner |-> owner, text |-> text, media |-> media, list |-> list]

Exists(f, p) == p \in DOMAIN f

WriteFile(f, p, c) == [q \in (DOMAIN f) \cup {p} |-> IF q = p THEN c ELSE f[q]]

\* Mutant of RemoveFile: the file is left where it is.
RemoveFileKeep(f, p) == f

RemoveFile(f, p) == [q \in (DOMAIN f) \ {p} |-> f[q]]

EmptyDir == [q \in {} |-> File("", "", "", NoPath, <<>>)]

\* What an earlier request with no scenes and no uploads, all of whose steps
\* succeeded, leaves in output/ (nothing there is ever deleted but audio).
\* The lines of its list.txt are absolute paths in the guarded iterations and
\* base names in the others.
EarlierManifest(b) ==
    IF b \in GuardedBuilds THEN <<Abs(SegPath("intro")), Abs(SegPath("outro"))>>
    ELSE <<Base(SegPath("intro")), Base(SegPath("outro"))>>

EarlierDir(b) ==
    LET intro == File("placeholder", "earlier", "Top 5", NoPath, <<>>)
        outro == File("placeholder", "earlier", "Thanks for watching!", NoPath, <<>>)
        f1 == WriteFile(EmptyDir, MediaPath("intro", ExtJpg), intro)
        f2 == WriteFile(f1, MediaPath("outro", ExtJpg), outro)
        f3 == WriteFile(f2, SegPath("intro"),
                  File("clip", "earlier", "intro text", MediaPath("intro", ExtJpg), <<>>))
        f4 == WriteFile(f3, SegPath("outro"),
                  File("clip", "earlier", "outro text", MediaPath("outro", ExtJpg), <<>>))
        f5 == WriteFile(f4, ListPath,
                  File("manifest", "earlier", "", NoPath, EarlierManifest(b)))
    IN  WriteFile(f5, FinalPath,
            File("movie", "earlier", "", NoPath,
                 <<SegPath("intro"), SegPath("outro")>>))

\* ----------------------------------------------------------- error values
\* An error value is the sequence of the parts its message is formatted from.
\* A payload part holds upstream text verbatim (body); the other parts hold
\* none.
Text(t) == [kind |-> "text", text |-> t, body |-> <<>>]

Payload(body) == [kind |-> "payload", text |-> "", body |-> body]

NoError == <<>>

\* -------------------------------------------------- script generation
\* The text-generation service's reply is a sequence of tokens: code-fence
\* markers, prose, and a JSON object {intro, items, outro} whose items are
\* plain strings or {title, details} objects.
FenceJson == [tok |-> "fence_json", shape |-> "", items |-> <<>>]

Fence == [tok |-> "fence", shape |-> "", items |-> <<>>]

Prose == [tok |-> "prose", shape |-> "", items |-> <<>>]

ItemText(i) == "item " \o ToString(i)

Object(shape, k) ==
    [tok |-> "object", shape |-> shape,
     items |-> IF shape = "strings" THEN [i \in 1..k |-> ItemText(i - 1)]
               ELSE [i \in 1..k |-> [title |-> "title " \o ToString(i - 1),
                                     details |-> ItemText(i - 1)]]]

\* strings.ReplaceAll twice: every fence marker is deleted from the content.
StripFences(raw) == SelectSeq(raw, LAMBDA t : t.tok \notin {"fence_json", "fence"})

\* The Go type of ScriptResponse.Items in each iteration.
ItemsShape(b) == IF b \in StringItemBuilds THEN "strings" ELSE "objects"

ScriptResponse(intro, items, outro) == [Intro |-> intro, Items |-> items, Outro |-> outro]

ZeroScriptResponse == ScriptResponse("", <<>>, "")

\* json.Unmarshal([]byte(clean), &result): fails on anything but one JSON
\* object, and on an items element that does not decode into the element type.
Unmarshal(b, clean) ==
    IF Len(clean) = 1 /\ clean[1].tok = "object"
       /\ (clean[1].items = <<>> \/ clean[1].shape = ItemsShape(b))
    THEN [ok |-> TRUE,
          result |-> ScriptResponse("intro text", clean[1].items, "outro text")]
    ELSE [ok |-> FALSE, result |-> ZeroScriptResponse]

\* The iterations with string items format the decoder message into the
\* error; the others return the bare text.  None of them puts the reply into
\* the error.
ParseError(b, clean) ==
    IF b \in StringItemBuilds
    THEN <<Text("json parse error: "),
           Text(IF Len(clean) = 1 /\ clean[1].tok = "object"
                THEN "json: cannot unmarshal object into Go struct field"
                ELSE "invalid character")>>
    ELSE <<Text("json parse error")>>

\* The prefix the handler puts before the error of generateSegmentedScript.
ScriptFailedPrefix(b) == IF b = "early" THEN "AI failed: " ELSE "AI Script failed: "

\* Mutant of generateSegmentedScript: an error is swallowed and the zero
\* ScriptResponse is returned as if generation had succeeded.
generateSegmentedScriptSwallow(b, reply) ==
    IF reply.kind \in {"no_key", "transport", "no_choices"}
    THEN [err |-> NoError, panic |-> FALSE, result |-> ZeroScriptResponse, called |-> 1]
    ELSE [err |-> NoError, panic |-> FALSE,
          result |-> Unmarshal(b, StripFences(reply.raw)).result, called |-> 1]

\* reply.kind: no_key (GROQ_API_KEY unset), transport (the call failed),
\* no_choices (the call succeeded and the response has no choice), content
\* (reply.raw is the message content of the first choice).  Every iteration
\* but the early one returns at once when the key is unset; without the key
\* check the call is made without a key and the service refuses it.  The
\* first choice is indexed unguarded: without choices the function panics.
generateSegmentedScript(b, reply) ==
    IF reply.kind = "no_key" /\ b # "early"
    THEN [err |-> <<Text("missing GROQ_API_KEY")>>, panic |-> FALSE,
          result |-> ZeroScriptResponse, called |-> 0]
    ELSE IF reply.kind \in {"no_key", "transport"}
    THEN [err |-> <<Text("transport error")>>, panic |-> FALSE,
          result |-> ZeroScriptResponse, called |-> 1]
    ELSE IF reply.kind = "no_choices"
    THEN [err |-> NoError, panic |-> TRUE, result |-> ZeroScriptResponse, called |-> 1]
    ELSE LET clean == StripFences(reply.raw)
             parsed == Unmarshal(b, clean)
         IN  IF parsed.ok
             THEN [err |-> NoError, panic |-> FALSE, result |-> parsed.result,
                   called |-> 1]
             ELSE [err |-> ParseError(b, clean), panic |-> FALSE,
                   result |-> ZeroScriptResponse, called |-> 1]

\* The padding check of the padded iterations.
FillerShort == [title |-> "Extra Item", details |-> "Here is another item."]

FillerLong == [title |-> "Extra Item", details |-> "Here is another item related to the topic."]

PadItems(items, cnt, filler) ==
    IF Len(items) < cnt
    THEN items \o [i \in 1..(cnt - Len(items)) |-> filler]
    ELSE items

\* Mutant of NormalizeItems: the list is cut to the scene count.
NormalizeItemsTruncating(b, items, cnt) ==
    IF Len(items) > cnt THEN SubSeq(items, 1, cnt) ELSE items

\* What the handler does to scriptData.Items between script generation and
\* rendering: only the padded iterations do anything.
NormalizeItems(b, items, cnt) ==
    CASE b = "padded" -> PadItems(items, cnt, FillerLong)
      [] b = "padded_chunked" -> PadItems(items, cnt, FillerShort)
      [] OTHER -> items

\* The narration passed to renderSegment for an element of Items.
TextToSpeak(b, item) == IF ItemsShape(b) = "strings" THEN item ELSE item.details

\* ------------------------------------------------------- media resolution
\* c.FormFile found no file under the form key.
NoUpload == <<"no upload">>

\* A file name is the sequence of its characters.
\* filepath.Ext: the suffix that begins at the last dot of the last element
\* of the path, empty if that element has no dot.
Ext(name) ==
    LET slashes == {i \in 1..Len(name) : name[i] = "/"}
        from == IF slashes = {} THEN 0
                ELSE CHOOSE i \in slashes : \A j \in slashes : j <= i
        dots == {i \in (from + 1)..Len(name) : name[i] = "."}
    IN  IF dots = {} THEN <<>>
        ELSE LET last == CHOOSE i \in dots : \A j \in dots : j <= i
             IN  SubSeq(name, last, Len(name))

\* Mutant of UploadExt: a name without extension keeps the empty extension.
UploadExtKeepEmpty(ext) == ext

\* ext := filepath.Ext(file.Filename); if ext == "" { ext = ".jpg" }
UploadExt(ext) == IF ext = <<>> THEN ExtJpg ELSE ext

\* What a request waits for between two of its steps, the file it is for
\* and, for a media file, the branch of saveMedia it comes from: the body of
\* a download that io.Copy is still to write; what the ffmpeg process it
\* started has read and will write; or, while the speech comes in, what the
\* call has written so far through the descriptor os.Create gave it, the
\* bodies still to come (todo), and whether the file it opened is still the
\* one in the directory (ok).
NoPending == [ok |-> FALSE, out |-> File("", "", "", NoPath, <<>>), at |-> NoPath,
              source |-> "", todo |-> <<>>]

\* A file as os.Create leaves it: there, and empty.
Created == File("empty", "req", "", NoPath, <<>>)

\* downloadFile up to os.Create: a transport error returns before the file
\* is created; any response body will be copied to the file, whatever the
\* status.  out is the body that io.Copy then writes.
\* dl: neterr, junk (a body that is no image), ok.
downloadFile(f, dest, content, dl) ==
    IF dl = "neterr"
    THEN [err |-> TRUE, fs |-> f, out |-> NoPending.out]
    ELSE [err |-> FALSE, fs |-> WriteFile(f, dest, Created),
          out |-> IF dl = "junk" THEN [content EXCEPT !.kind = "junk"] ELSE content]

\* Mutant of downloadTMDBPoster: a search that fails is sent a second time.
downloadTMDBPosterRetry(f, query, dest, tm) ==
    IF tm = "no_key"
    THEN [err |-> TRUE, fs |-> f, searched |-> 0, out |-> NoPending.out]
    ELSE IF tm = "search_fail"
    THEN [err |-> TRUE, fs |-> f, searched |-> 2, out |-> NoPending.out]
    ELSE LET d == downloadFile(f, dest, File("poster", "req", query, NoPath, <<>>), tm)
         IN  [err |-> d.err, fs |-> d.fs, searched |-> 1, out |-> d.out]

\* downloadTMDBPoster.  tm: no_key, search_fail (transport, status, decode or
\* no results), or the outcome of downloading the first result.
downloadTMDBPoster(f, query, dest, tm) ==
    IF tm = "no_key"
    THEN [err |-> TRUE, fs |-> f, searched |-> 0, out |-> NoPending.out]
    ELSE IF tm = "search_fail"
    THEN [err |-> TRUE, fs |-> f, searched |-> 1, out |-> NoPending.out]
    ELSE LET d == downloadFile(f, dest, File("poster", "req", query, NoPath, <<>>), tm)
         IN  [err |-> d.err, fs |-> d.fs, searched |-> 1, out |-> d.out]

\* downloadPlaceholder: the result of downloadFile is dropped.  coming says
\* whether a body is on its way into the file.
downloadPlaceholder(f, text, dest, dl) ==
    LET d == downloadFile(f, dest, File("placeholder", "req", text, NoPath, <<>>), dl)
    IN  [fs |-> d.fs, coming |-> ~d.err, out |-> d.out]

\* Mutant of TriesLookup: the category does not gate the lookup.
TriesLookupAnyCategory(tryTMDB, cat, fallbackName) == tryTMDB /\ fallbackName # ""

\* Whether saveMedia queries the media search for a slot without an upload.
TriesLookup(tryTMDB, cat, fallbackName) ==
    tryTMDB /\ cat = "movie" /\ fallbackName # ""

\* The saveMedia closure of the handler, up to the point where the file it
\* will return has been created and its content is still to be copied in.
\* upload is NoUpload or the extension of the uploaded file name; tm and ph
\* are the outcomes of the two downloads.  path is what the call returns,
\* source the branch that returns it; coming says whether a body is on its
\* way into the file, and out is that body.
saveMedia(f, slot, fallbackName, tryTMDB, cat, upload, tm, ph) ==
    IF upload # NoUpload
    THEN LET savePath == MediaPath(slot, UploadExt(upload))
         IN  [path |-> savePath, source |-> "upload",
              fs |-> WriteFile(f, savePath, Created),
              searched |-> 0, placeholders |-> 0,
              coming |-> TRUE, out |-> File("upload", "req", "", NoPath, <<>>)]
    ELSE LET savePath == MediaPath(slot, ExtJpg)
             look == IF TriesLookup(tryTMDB, cat, fallbackName)
                     THEN downloadTMDBPoster(f, fallbackName, savePath, tm)
                     ELSE [err |-> TRUE, fs |-> f, searched |-> 0]
             txt == IF fallbackName = "" THEN "Scene" ELSE fallbackName
         IN  IF ~look.err
             THEN [path |-> savePath, source |-> "lookup", fs |-> look.fs,
                   searched |-> look.searched, placeholders |-> 0,
                   coming |-> TRUE, out |-> look.out]
             ELSE LET d == downloadPlaceholder(look.fs, txt, savePath, ph)
                  IN  [path |-> savePath, source |-> "placeholder", fs |-> d.fs,
                       searched |-> look.searched, placeholders |-> 1,
                       coming |-> d.coming, out |-> d.out]

\* ------------------------------------------------------------ text chunking
\* A narration text examined character by character is the sequence of its
\* one-character strings.
IsSpace(c) == c = " "

RECURSIVE TrimLeft(_)
TrimLeft(s) == IF s # <<>> /\ IsSpace(Head(s)) THEN TrimLeft(Tail(s)) ELSE s

RECURSIVE TrimRight(_)
TrimRight(s) ==
    IF s # <<>> /\ IsSpace(s[Len(s)]) THEN TrimRight(SubSeq(s, 1, Len(s) - 1)) ELSE s

\* strings.TrimSpace
TrimSpace(s) == TrimRight(TrimLeft(s))

\* strings.HasSuffix(s, c) for a one-character suffix.
HasSuffix(s, c) == s # <<>> /\ s[Len(s)] = c

\* strings.Split for a non-empty separator: the pieces between its
\* occurrences taken left to right, empty pieces included.  i is
\* strings.Index: the first position where sep occurs in s, 0 if none.
RECURSIVE Split(_, _)
Split(s, sep) ==
    LET hits == {j \in 1..(Len(s) - Len(sep) + 1) : SubSeq(s, j, j + Len(sep) - 1) = sep}
        i == IF hits = {} THEN 0 ELSE CHOOSE j \in hits : \A k \in hits : j <= k
    IN  IF i = 0 THEN <<s>>
        ELSE <<SubSeq(s, 1, i - 1)>> \o Split(SubSeq(s, i + Len(sep), Len(s)), sep)

\* strings.FieldsFunc: the maximal runs of characters not in cut; never an
\* empty piece.  acc is the run being read.
RECURSIVE FieldsFrom(_, _, _)
FieldsFrom(s, cut, acc) ==
    IF s = <<>> THEN (IF acc = <<>> THEN <<>> ELSE <<acc>>)
    ELSE IF Head(s) \in cut
    THEN (IF acc = <<>> THEN <<>> ELSE <<acc>>) \o FieldsFrom(Tail(s), cut, <<>>)
    ELSE FieldsFrom(Tail(s), cut, Append(acc, Head(s)))

FieldsFunc(s, cut) == FieldsFrom(s, cut, <<>>)

\* strings.Fields
Fields(s) == FieldsFunc(s, {" "})

\* The word loop of splitText in the chunked iteration: a word joins the
\* current chunk if the chunk, a space and the word fit the limit; otherwise
\* the current chunk is emitted, empty or not, and the word starts the next.
RECURSIVE PackWords(_, _, _)
PackWords(words, currentChunk, limit) ==
    IF words = <<>>
    THEN (IF Len(currentChunk) > 0 THEN <<currentChunk>> ELSE <<>>)
    ELSE LET word == Head(words)
         IN  IF Len(currentChunk) + Len(word) + 1 <= limit
             THEN PackWords(Tail(words),
                            (IF Len(currentChunk) > 0 THEN currentChunk \o <<" ">>
                             ELSE currentChunk) \o word,
                            limit)
             ELSE <<currentChunk>> \o PackWords(Tail(words), word, limit)

\* One sentence of splitText in the chunked iteration.
SplitSentence(piece, limit) ==
    LET t == TrimSpace(piece)
        s == IF ~HasSuffix(t, ".") /\ ~HasSuffix(t, "!") /\ ~HasSuffix(t, "?")
             THEN t \o <<".">> ELSE t
    IN  IF t = <<>> THEN <<>>
        ELSE IF Len(s) <= limit THEN <<s>>
        ELSE PackWords(Fields(s), <<>>, limit)

\* The sentence loop of splitText in the chunked iteration.
RECURSIVE SplitSentences(_, _)
SplitSentences(sentences, limit) ==
    IF sentences = <<>> THEN <<>>
    ELSE SplitSentence(Head(sentences), limit) \o SplitSentences(Tail(sentences), limit)

\* splitText of the chunked iteration.
splitTextSentences(text, limit) == SplitSentences(Split(text, <<".", " ">>), limit)

\* The word loop of splitText in the padded chunked iteration: the current
\* chunk grows by a space and the word while both lengths stay under the
\* limit; otherwise it is emitted trimmed and the word starts the next.
RECURSIVE PackWordsLoose(_, _, _)
PackWordsLoose(words, currentChunk, limit) ==
    IF words = <<>>
    THEN <<TrimSpace(currentChunk)>>
    ELSE LET word == Head(words)
         IN  IF Len(currentChunk) + Len(word) < limit
             THEN PackWordsLoose(Tail(words), currentChunk \o <<" ">> \o word, limit)
             ELSE <<TrimSpace(currentChunk)>> \o PackWordsLoose(Tail(words), word, limit)

\* One sentence of splitText in the padded chunked iteration.
SplitSentenceLoose(piece, limit) ==
    LET s == TrimSpace(piece)
    IN  IF Len(s) <= limit THEN <<s>>
        ELSE PackWordsLoose(Split(s, <<" ">>), <<>>, limit)

\* The sentence loop of splitText in the padded chunked iteration.
RECURSIVE SplitSentencesLoose(_, _)
SplitSentencesLoose(sentences, limit) ==
    IF sentences = <<>> THEN <<>>
    ELSE SplitSentenceLoose(Head(sentences), limit)
             \o SplitSentencesLoose(Tail(sentences), limit)

\* splitText of the padded chunked iteration.
splitTextFieldsFunc(text, limit) ==
    SplitSentencesLoose(FieldsFunc(text, {".", "!", "?"}), limit)

splitText(b, text, limit) ==
    IF b = "padded_chunked" THEN splitTextFieldsFunc(text, limit)
    ELSE splitTextSentences(text, limit)

\* ---------------------------------------------------------------- rendering
\* renderSegment runs in four parts with a wait between them.  It asks for
\* the speech and creates the audio file; the speech comes in over the
\* network; renderSegment then removes an old clip and starts ffmpeg; ffmpeg
\* runs as a process of its own, reading the media and the audio and writing
\* the clip; when it has exited renderSegment removes the audio and returns.

\* What the first part can meet.  main.go and the early iteration need
\* OPENAI_API_KEY, which is set or unset for the life of the process, and
\* create the file once the request has been answered; so does the single
\* request to Google.  The chunked downloader creates the file before any
\* request and returns no error of a request.
SpeechOutcomes(b, key) ==
    CASE b \in OpenAIBuilds -> IF key THEN {"error", "ok"} ELSE {"no_key"}
      [] b \in GoogleBuilds -> {"error", "ok"}
      [] OTHER -> {"ok"}

\* What comes in over the network once the file is there: the body of the
\* one answer, or the reply to the request for one chunk, which is a
\* transport error, a status other than 200, or its audio.
DownloadOutcomes(b) ==
    IF b \in OpenAIBuilds \cup GoogleBuilds THEN {"ok"} ELSE {"neterr", "status", "ok"}

\* The narrations are texts of the script, not read character by character
\* here.  What the chunk loop turns on is the number of chunks splitText
\* makes of one: the intro is MaxChunks sentences, each as long as the
\* provider takes, and every other narration fits in one chunk.
Sentences(text) == IF text = "intro text" THEN MaxChunks ELSE 1

\* Speech synthesis up to os.Create of the audio file: err, and the file,
\* empty as os.Create leaves it.
SynthesizeStart(b, f, audioPath, sp) ==
    CASE sp = "no_key" ->
            [err |-> <<Text(IF b = "early" THEN "missing OPENAI_API_KEY for TTS"
                                           ELSE "missing OPENAI_API_KEY")>>,
             called |-> 0, fs |-> f]
      [] sp = "error" ->
            [err |-> <<Text(IF b \in OpenAIBuilds THEN "OpenAI TTS failed: "
                                               ELSE "Google TTS failed: "),
                       Text("transport error")>>,
             called |-> 1, fs |-> f]
      [] OTHER ->
            [err |-> NoError, called |-> 1,
             fs |-> WriteFile(f, audioPath, Created)]

\* Mutant of renderSegmentStart: the call goes on to the mux whether or not
\* the synthesis reported an error.
renderSegmentStartMuxRegardless(b, f, outputPath, sp) ==
    LET tts == SynthesizeStart(b, f, AudioPath(outputPath), sp)
    IN  [err |-> NoError, started |-> TRUE, fs |-> tts.fs,
         speech |-> tts.called, speechErrors |-> IF tts.err # NoError THEN 1 ELSE 0]

\* renderSegment up to the wait for the speech: the key check, the request,
\* the return on its error, os.Create(audioPath).
renderSegmentStart(b, f, outputPath, sp) ==
    LET tts == SynthesizeStart(b, f, AudioPath(outputPath), sp)
    IN  [err |-> tts.err, started |-> tts.err = NoError, fs |-> tts.fs,
         speech |-> tts.called, speechErrors |-> IF tts.err # NoError THEN 1 ELSE 0]

\* renderSegment while the speech comes in: the next body, p being what the
\* call waits for, is asked for where it is a chunk, and io.Copy writes it
\* through the descriptor of the call, at the offset of that descriptor: after
\* the bodies the call has written before, whatever the file holds by now.
\* A file is taken as the sequence of the bodies in it, all of one length.
\* The body goes over what another call has written at that place, what
\* lies beyond it stays, and a file that has been truncated meanwhile is
\* left with a hole (-1) up to the offset.  No iteration looks at the result
\* of io.Copy, and the loop passes over a chunk whose request failed.  What
\* is written to a file that has been removed from the directory meanwhile
\* is in no file of the directory, whether or not the path has a file again.
renderSegmentDownload(f, p, dl) ==
    LET mine == IF dl = "ok" THEN Append(p.out.list, Head(p.todo)) ELSE p.out.list
        have == IF f[p.at].kind = "audio" THEN f[p.at].list ELSE <<>>
        k == Len(mine)
        m == IF Len(have) > k THEN Len(have) ELSE k
    IN  [fs |-> IF dl = "ok" /\ p.ok /\ Exists(f, p.at)
                THEN WriteFile(f, p.at,
                        [p.out EXCEPT !.list =
                            [i \in 1..m |-> IF i = k THEN mine[k]
                                            ELSE IF i <= Len(have) THEN have[i]
                                            ELSE -1]])
                ELSE f,
         pending |-> IF Len(p.todo) = 1 THEN NoPending
                     ELSE [p EXCEPT !.todo = Tail(@), !.out.list = mine]]

\* ffmpeg runs as a process of its own while the function that started it
\* waits: it opens and reads its inputs, and later writes its output and
\* exits.  What it has read, and so what it will write, is kept from the one
\* to the other.

\* ffmpeg of renderSegment reads the media and the audio: it can go on only
\* if both are there and are what they should be, and the clip it will write
\* is made of the media and of the audio it finds on disk.
ffmpegMuxRead(f, mediaPath, outputPath) ==
    LET audioPath == AudioPath(outputPath)
        ok == /\ Exists(f, mediaPath) /\ f[mediaPath].kind \notin {"junk", "empty"}
              /\ Exists(f, audioPath) /\ f[audioPath].kind = "audio"
    IN  [ok |-> ok,
         out |-> IF ok THEN File("clip", "req", f[audioPath].text, mediaPath, <<>>)
                 ELSE NoPending.out,
         at |-> outputPath, source |-> "", todo |-> <<>>]

\* ffmpeg writes its output and exits: zero only if it could read its inputs
\* and nothing else went wrong (x).
ffmpegExit(f, outputPath, t, x) ==
    LET ok == t.ok /\ x = "ok"
    IN  [ok |-> ok, fs |-> IF ok THEN WriteFile(f, outputPath, t.out) ELSE f]

\* Mutant of renderSegmentFinish: the audio file is removed only after a mux
\* that succeeded.
renderSegmentFinishLeak(f, outputPath, ok) ==
    [err |-> IF ok THEN NoError ELSE <<Text("exit status 1")>>,
     fs |-> IF ok THEN RemoveFile(f, AudioPath(outputPath)) ELSE f]

\* renderSegment from the end of ffmpeg: os.Remove(audioPath), and the exit
\* status of the tool as the result.
renderSegmentFinish(f, outputPath, ok) ==
    [err |-> IF ok THEN NoError ELSE <<Text("exit status 1")>>,
     fs |-> RemoveFile(f, AudioPath(outputPath))]

\* Mutant of RenderPlan: the break of the items loop comes one index early.
RenderPlanBreakEarly(items, cnt) ==
    LET m == IF cnt = 0 THEN 0
             ELSE IF Len(items) < cnt - 1 THEN Len(items) ELSE cnt - 1
    IN  <<"intro">> \o [i \in 1..m |-> SceneSlot(i - 1)] \o <<"outro">>

\* The slots the handler renders, in order: intro, then the items loop with
\* its break at len(scenePaths), then outro.
RenderPlan(items, cnt) ==
    LET m == IF Len(items) < cnt THEN Len(items) ELSE cnt
    IN  <<"intro">> \o [i \in 1..m |-> SceneSlot(i - 1)] \o <<"outro">>

\* ---------------------------------------------------------------- stitching
\* fmt.Errorf("Stitch Error: %v | Log: %s", err, string(output))
StitchError(err, output) ==
    <<Text("Stitch Error: ")>> \o err \o <<Text(" | Log: "), Payload(output)>>

NoSegmentsError == <<Text("no video segments were created")>>

\* ffmpeg of stitchVideos reads the list file that is on disk and the clips
\* it names: it can go on only if the list names at least one file and every
\* file it names can be opened.
ffmpegConcatRead(f) ==
    LET entries == f[ListPath].list
        ok == /\ entries # <<>>
              /\ \A i \in 1..Len(entries) : Exists(f, Resolve(entries[i]))
    IN  [ok |-> ok,
         out |-> IF ok THEN File("movie", "req", "", NoPath,
                                 [i \in 1..Len(entries) |-> Resolve(entries[i])])
                 ELSE NoPending.out,
         at |-> FinalPath, source |-> "", todo |-> <<>>]

\* Mutant of StitchEntries: the list is written last file first.
StitchEntriesReversed(b, files) ==
    LET k == Len(files)
    IN  [i \in 1..k |-> IF b \in GuardedBuilds THEN Abs(files[k + 1 - i])
                        ELSE Base(files[k + 1 - i])]

\* The lines of list.txt: the absolute path of each file in the guarded
\* iterations, its base name in the others.
StitchEntries(b, files) ==
    [i \in 1..Len(files) |-> IF b \in GuardedBuilds THEN Abs(files[i]) ELSE Base(files[i])]

\* stitchVideos runs in three parts: it writes the list and removes the old
\* output file, then starts ffmpeg and waits; ffmpeg runs as a process of
\* its own, reading the list and the clips and writing the output file; when
\* it has exited stitchVideos returns.

\* Mutant of stitchVideosStart: the guard is off by one and also refuses a
\* list of one segment.
stitchVideosStartGuardOffByOne(b, f, files, outputFile) ==
    IF b \in GuardedBuilds /\ Len(files) <= 1
    THEN [err |-> NoSegmentsError, started |-> FALSE, fs |-> f, concat |-> 0]
    ELSE LET f1 == WriteFile(f, ListPath,
                       File("manifest", "req", "", NoPath, StitchEntries(b, files)))
         IN  [err |-> NoError, started |-> TRUE, fs |-> RemoveFile(f1, outputFile),
              concat |-> 1]

\* Mutant of stitchVideosStart: with no segment it returns nil, in every
\* iteration.
stitchVideosStartSilent(b, f, files, outputFile) ==
    IF Len(files) = 0
    THEN [err |-> NoError, started |-> FALSE, fs |-> f, concat |-> 0]
    ELSE LET f1 == WriteFile(f, ListPath,
                       File("manifest", "req", "", NoPath, StitchEntries(b, files)))
         IN  [err |-> NoError, started |-> TRUE, fs |-> RemoveFile(f1, outputFile),
              concat |-> 1]

\* stitchVideos up to the start of ffmpeg: the guard, the list file,
\* os.Remove(outputFile).
stitchVideosStart(b, f, files, outputFile) ==
    IF b \in GuardedBuilds /\ Len(files) = 0
    THEN [err |-> NoSegmentsError, started |-> FALSE, fs |-> f, concat |-> 0]
    ELSE LET f1 == WriteFile(f, ListPath,
                       File("manifest", "req", "", NoPath, StitchEntries(b, files)))
         IN  [err |-> NoError, started |-> TRUE, fs |-> RemoveFile(f1, outputFile),
              concat |-> 1]

\* Mutant of stitchVideosFinish: the exit status of the tool is not looked
\* at.
stitchVideosFinishIgnoreExit(b, ok) == NoError

\* stitchVideos from the end of ffmpeg: the exit status of the tool as the
\* result, bare or wrapped with what ffmpeg printed, as CombinedOutput
\* returns it.
stitchVideosFinish(b, ok) ==
    LET exit == <<Text("exit status 1")>>
    IN  IF ok THEN NoError
        ELSE IF b \in WrappingBuilds THEN StitchError(exit, <<"ffmpeg log">>)
        ELSE exit

\* -------------------------------------------------------------------- state
VARIABLES
    build,          \* the iteration of the handler that runs
    openaiKey,      \* whether OPENAI_API_KEY is set in the environment
    pending,        \* what the request waits for: a body, chunks, or its ffmpeg
    fs,             \* the files under output/ and the working directory
    before,         \* fs as it was when the request arrived
    pc,             \* idle, media, fetch, script, render, speech, spoken, mux,
                    \* mux_run, mux_ok, mux_fail, stitch, concat, concat_run,
                    \* concat_ok, concat_fail, done, failed, rejected
    n,              \* len(scenes)
    category,       \* the category form field
    idx,            \* position in the media loop or in the render plan
    media,          \* slot -> the path saveMedia returned, and where it came from
    reply,          \* what the text-generation service answered
    scriptData,     \* the ScriptResponse the handler renders from
    renderResult,   \* slot -> whether renderSegment returned nil
    segmentFiles,   \* the handler's segmentFiles slice
    calls,          \* external calls and responses of the request so far
    response,       \* the JSON response written to the caller
    probe           \* the last call of a helper examined on its own: inputs and
                    \* results; or the external calls of the request, one by one

vars == <<build, openaiKey, pending, fs, before, pc, n, category, idx, media, reply, scriptData,
          renderResult, segmentFiles, calls, response, probe>>

Put(fn, k, v) == [x \in (DOMAIN fn) \cup {k} |-> IF x = k THEN v ELSE fn[x]]

NoCalls ==
    [search |-> 0, placeholder |-> 0, script |-> 0, renders |-> 0, speech |-> 0,
     speechErrors |-> 0, mux |-> 0, concat |-> 0, responses |-> 0]

\* No video_url field in the response.
NoUrl == <<>>

NoResponse == [status |-> 0, error |-> <<>>, video_url |-> NoUrl]

NoReply == [kind |-> "none", raw |-> <<>>]

Respond(status, err, url) == [status |-> status, error |-> err, video_url |-> url]

\* scheme is https if the request came over TLS or was forwarded from https;
\* host is the Host header of the request.
VideoUrl(secure, host) ==
    <<IF secure THEN "https" ELSE "http", "://", host, "/videos/final_movie.mp4">>

Init ==
    /\ build \in Builds
    /\ openaiKey \in (IF build \in OpenAIBuilds THEN BOOLEAN ELSE {TRUE})
    /\ pending = NoPending
    /\ fs \in {EmptyDir, EarlierDir(build)}
    /\ before = fs
    /\ pc = "idle"
    /\ n = 0
    /\ category = ""
    /\ idx = 0
    /\ media = [s \in {} |-> [path |-> NoPath, source |-> ""]]
    /\ reply = NoReply
    /\ scriptData = ZeroScriptResponse
    /\ renderResult = [s \in {} |-> ""]
    /\ segmentFiles = <<>>
    /\ calls = NoCalls
    /\ response = NoResponse
    /\ probe = [op |-> "none"]

\* ------------------------------------------------------------------ inputs
Topic == "Top 5"

Categories == {"movie", "product"}

\* The external calls of the request are written down one by one, as
\* (call, slot, chunk), where the request is run against every outcome of
\* every service it calls.
Logged(p, sites) == IF p.op = "calls" THEN [p EXCEPT !.made = @ \o sites] ELSE p

\* The outcomes of the media search and of the poster download.  Where the
\* calls are written down they are all there are; elsewhere the lookup finds
\* a poster or it does not.
LookupOutcomes ==
    IF probe.op = "calls" THEN {"no_key", "search_fail", "neterr", "junk", "ok"}
    ELSE {"search_fail", "ok"}

\* The outcomes of the placeholder download: the request for it fails where
\* the calls are written down.
PlaceholderOutcomes == IF probe.op = "calls" THEN {"neterr", "ok"} ELSE {"ok"}

ExitOutcomes == {"fail", "ok"}

Shapes == {"strings", "objects"}

\* What the text-generation service writes.  Where the calls are written
\* down the script has an item for every scene or is no script at all.
RawReplies ==
    IF probe.op = "calls"
    THEN {<<Prose>>} \cup {<<Object(sh, n)>> : sh \in Shapes}
    ELSE {<<Prose>>, <<Object("strings", 0)>>}
            \cup {<<Object(sh, k)>> : sh \in Shapes, k \in 1..MaxItems}
            \cup {<<FenceJson, Object(sh, 1), Fence>> : sh \in Shapes}

ScriptReplies ==
    {[kind |-> "no_key", raw |-> <<>>], [kind |-> "transport", raw |-> <<>>],
     [kind |-> "no_choices", raw |-> <<>>]}
        \cup {[kind |-> "content", raw |-> r] : r \in RawReplies}

\* ----------------------------------------------------------------- actions
\* Mutant of Reject: the scenes field is parsed after the intro media has
\* been resolved, so the rejected request has written a media file.
RejectAfterIntroMedia ==
    /\ pc = "idle"
    /\ pc' = "rejected"
    /\ response' = Respond(400, <<Text("Invalid scenes JSON")>>, NoUrl)
    /\ calls' = [calls EXCEPT !.responses = @ + 1, !.placeholder = @ + 1]
    /\ fs' = WriteFile(fs, MediaPath("intro", ExtJpg),
                       downloadPlaceholder(fs, Topic, MediaPath("intro", ExtJpg), "ok").out)
    /\ UNCHANGED <<probe, build, openaiKey, pending, before, n, category, idx, media, reply,
                   scriptData, renderResult, segmentFiles>>

\* Form parsing: json.Unmarshal of the scenes field, 400 on failure.
Reject ==
    /\ pc = "idle"
    /\ pc' = "rejected"
    /\ response' = Respond(400, <<Text("Invalid scenes JSON")>>, NoUrl)
    /\ calls' = [calls EXCEPT !.responses = @ + 1]
    /\ UNCHANGED <<probe, build, openaiKey, pending, fs, before, n, category, idx, media, reply, scriptData,
                   renderResult, segmentFiles>>

Receive ==
    /\ pc = "idle"
    /\ \E cnt \in 0..MaxScenes, cat \in Categories :
          /\ n' = cnt
          /\ category' = cat
    /\ pc' = "media"
    /\ idx' = 1
    /\ UNCHANGED <<probe, build, openaiKey, pending, fs, before, media, reply, scriptData, renderResult,
                   segmentFiles, calls, response>>

\* The handler once a saveMedia call has returned: the path of the slot,
\* and the next statement.
MediaReturned(slot, path, source) ==
    /\ media' = Put(media, slot, [path |-> path, source |-> source])
    /\ pending' = NoPending
    /\ IF idx = n + 2
       THEN pc' = "script" /\ idx' = 0
       ELSE pc' = "media" /\ idx' = idx + 1

\* The handler calls saveMedia: intro, outro, then each scene.  The call
\* either returns, no file written, or is left waiting for the content of
\* the file it has created.
SaveMedia ==
    /\ pc = "media"
    /\ LET slot == MediaOrder(n)[idx]
           tryTMDB == slot \notin {"intro", "outro"}
       IN  \E upload \in {NoUpload}, name \in {"Inception"},
              tm \in LookupOutcomes, ph \in PlaceholderOutcomes :
              LET fallbackName == CASE slot = "intro" -> Topic
                                    [] slot = "outro" -> "Thanks for watching!"
                                    [] OTHER -> name
                  r == saveMedia(fs, slot, fallbackName, tryTMDB, category,
                                 upload, tm, ph)
              IN  /\ fs' = r.fs
                  /\ calls' = [calls EXCEPT !.search = @ + r.searched,
                                            !.placeholder = @ + r.placeholders]
                  /\ probe' = Logged(probe,
                        [i \in 1..r.searched |->
                            [call |-> "search", slot |-> slot, chunk |-> 0]]
                        \o [i \in 1..r.placeholders |->
                               [call |-> "placeholder", slot |-> slot, chunk |-> 0]])
                  /\ IF r.coming
                     THEN /\ pc' = "fetch"
                          /\ pending' = [ok |-> TRUE, out |-> r.out, at |-> r.path,
                                         source |-> r.source, todo |-> <<>>]
                          /\ UNCHANGED <<idx, media>>
                     ELSE MediaReturned(slot, r.path, r.source)
    /\ UNCHANGED <<build, openaiKey, before, n, category, reply, scriptData, renderResult,
                   segmentFiles, response>>

\* The content is in: io.Copy has written it, saveMedia returns the path
\* and the handler goes on.
MediaDownload ==
    /\ pc = "fetch"
    /\ fs' = WriteFile(fs, pending.at, pending.out)
    /\ MediaReturned(MediaOrder(n)[idx], pending.at, pending.source)
    /\ UNCHANGED <<probe, build, openaiKey, before, n, category, reply, scriptData,
                   renderResult, segmentFiles, calls, response>>

\* What the Recovery middleware of gin.Default answers when the handler
\* panics: status 500 and no body.
Recovered == Respond(500, NoError, NoUrl)

\* generateSegmentedScript, the 500 on its error, and the padding check.  A
\* panic ends the handler where it is; the middleware answers.
GenerateScript ==
    /\ pc = "script"
    /\ \E rp \in ScriptReplies :
          LET r == generateSegmentedScript(build, rp)
          IN  /\ reply' = rp
              /\ IF r.panic \/ r.err # NoError
                 THEN /\ response' =
                            IF r.panic THEN Recovered
                            ELSE Respond(500, <<Text(ScriptFailedPrefix(build))>> \o r.err,
                                         NoUrl)
                      /\ calls' = [calls EXCEPT !.script = @ + r.called,
                                                !.responses = @ + 1]
                      /\ pc' = "failed"
                      /\ idx' = 0
                      /\ scriptData' = r.result
                 ELSE /\ response' = response
                      /\ calls' = [calls EXCEPT !.script = @ + r.called]
                      /\ pc' = "render"
                      /\ idx' = 1
                      /\ scriptData' =
                            [r.result EXCEPT !.Items = NormalizeItems(build, @, n)]
              /\ probe' = Logged(probe, [i \in 1..r.called |->
                                            [call |-> "script", slot |-> "", chunk |-> 0]])
    /\ UNCHANGED <<build, openaiKey, pending, fs, before, n, category, media, renderResult,
                   segmentFiles>>

\* The narration the handler passes for the slot at position i of the plan.
RenderText(b, script, slot, i) ==
    CASE slot = "intro" -> script.Intro
      [] slot = "outro" -> script.Outro
      [] OTHER -> TextToSpeak(b, script.Items[i - 1])

\* Mutant of AppendIfOk: the path is appended whatever renderSegment returned.
AppendAlways(files, err, path) == Append(files, path)

\* if err == nil { segmentFiles = append(segmentFiles, path) }
AppendIfOk(files, err, path) == IF err = NoError THEN Append(files, path) ELSE files

\* Mutant of RenderLoopOver: the handler goes on to stitch one slot early.
RenderLoopOverEarly(i, plan) == i >= Len(plan) - 1

\* The handler leaves the render code for stitchVideos once the statement
\* for the last slot of the plan, the outro, has run.
RenderLoopOver(i, plan) == i = Len(plan)

\* The handler once a renderSegment call has returned: the append, the
\* result of the slot, and the next statement.
RenderReturned(slot, outputPath, err, plan) ==
    /\ segmentFiles' = AppendIfOk(segmentFiles, err, outputPath)
    /\ renderResult' = Put(renderResult, slot, IF err = NoError THEN "ok" ELSE "fail")
    /\ IF RenderLoopOver(idx, plan)
       THEN pc' = "stitch" /\ idx' = 0
       ELSE pc' = "render" /\ idx' = idx + 1

\* The handler calls renderSegment for the next slot of the plan; the call
\* either returns the error of the synthesis or is left waiting for the
\* speech to come in: the one body of the answer (0), or the chunks of the
\* narration in the order of the loop.
RenderStart ==
    /\ pc = "render"
    /\ LET plan == RenderPlan(scriptData.Items, n)
           slot == plan[idx]
           outputPath == SegPath(slot)
       IN  \E sp \in SpeechOutcomes(build, openaiKey) :
              LET r == renderSegmentStart(build, fs, outputPath, sp)
              IN  /\ fs' = r.fs
                  /\ calls' = [calls EXCEPT !.renders = @ + 1,
                                            !.speech = @ + r.speech,
                                            !.speechErrors = @ + r.speechErrors]
                  /\ probe' = Logged(probe,
                        IF build \in OpenAIBuilds \cup GoogleBuilds
                        THEN [i \in 1..r.speech |->
                                 [call |-> "speech", slot |-> slot, chunk |-> 0]]
                        ELSE <<>>)
                  /\ IF r.started
                     THEN /\ pc' = "speech"
                          /\ pending' =
                                [ok |-> TRUE,
                                 out |-> File("audio", "req",
                                              RenderText(build, scriptData, slot, idx),
                                              NoPath, <<>>),
                                 at |-> AudioPath(outputPath), source |-> "",
                                 todo |-> IF build \in OpenAIBuilds \cup GoogleBuilds
                                          THEN <<0>>
                                          ELSE [i \in 1..Sentences(RenderText(build,
                                                       scriptData, slot, idx)) |-> i]]
                          /\ UNCHANGED <<idx, segmentFiles, renderResult>>
                     ELSE /\ RenderReturned(slot, outputPath, r.err, plan)
                          /\ pending' = pending
    /\ UNCHANGED <<build, openaiKey, before, n, category, media, reply, scriptData,
                   response>>

\* The next of the speech comes in, the body of the one answer or the reply
\* to the request for the next chunk; the call waits for the rest, or has it
\* all.
RenderDownload ==
    /\ pc = "speech"
    /\ \E dl \in DownloadOutcomes(build) :
          LET r == renderSegmentDownload(fs, pending, dl)
          IN  /\ fs' = r.fs
              /\ pending' = r.pending
              /\ pc' = IF r.pending = NoPending THEN "spoken" ELSE "speech"
    /\ probe' = Logged(probe,
          IF build \in OpenAIBuilds \cup GoogleBuilds THEN <<>>
          ELSE <<[call |-> "speech", slot |-> RenderPlan(scriptData.Items, n)[idx],
                  chunk |-> Head(pending.todo)]>>)
    /\ UNCHANGED <<build, openaiKey, before, n, category, idx, media, reply, scriptData,
                   renderResult, segmentFiles, calls, response>>

\* The speech is in the file: renderSegment removes the old clip, starts
\* ffmpeg and waits for it.
MuxStart ==
    /\ pc = "spoken"
    /\ LET slot == RenderPlan(scriptData.Items, n)[idx]
       IN  /\ fs' = RemoveFile(fs, SegPath(slot))
           /\ probe' = Logged(probe, <<[call |-> "mux", slot |-> slot, chunk |-> 0]>>)
    /\ pc' = "mux"
    /\ calls' = [calls EXCEPT !.mux = @ + 1]
    /\ UNCHANGED <<build, openaiKey, pending, before, n, category, idx, media, reply,
                   scriptData, renderResult, segmentFiles, response>>

\* ffmpeg opens its inputs, the handler waiting.
MuxRead ==
    /\ pc = "mux"
    /\ LET slot == RenderPlan(scriptData.Items, n)[idx]
       IN  pending' = ffmpegMuxRead(fs, media[slot].path, SegPath(slot))
    /\ pc' = "mux_run"
    /\ UNCHANGED <<probe, build, openaiKey, fs, before, n, category, idx, media, reply,
                   scriptData, renderResult, segmentFiles, calls, response>>

\* ffmpeg writes the clip and exits, the handler still waiting.
MuxExit ==
    /\ pc = "mux_run"
    /\ LET slot == RenderPlan(scriptData.Items, n)[idx]
       IN  \E mx \in ExitOutcomes :
              LET r == ffmpegExit(fs, SegPath(slot), pending, mx)
              IN  /\ fs' = r.fs
                  /\ pc' = IF r.ok THEN "mux_ok" ELSE "mux_fail"
    /\ pending' = NoPending
    /\ UNCHANGED <<probe, build, openaiKey, before, n, category, idx, media, reply,
                   scriptData, renderResult, segmentFiles, calls, response>>

\* The handler resumes: renderSegment returns and the handler goes on.  If
\* another request has the audio file open that this call removes, the file
\* that request writes to is no longer the one in the directory.
RenderFinish ==
    /\ pc \in {"mux_ok", "mux_fail"}
    /\ LET plan == RenderPlan(scriptData.Items, n)
           slot == plan[idx]
           outputPath == SegPath(slot)
           r == renderSegmentFinish(fs, outputPath, pc = "mux_ok")
       IN  /\ fs' = r.fs
           /\ RenderReturned(slot, outputPath, r.err, plan)
           /\ probe' = IF /\ probe.op = "request"
                          /\ probe.pending.at = AudioPath(outputPath)
                          /\ ~Exists(r.fs, AudioPath(outputPath))
                       THEN [probe EXCEPT !.pending.ok = FALSE]
                       ELSE probe
    /\ UNCHANGED <<build, openaiKey, pending, before, n, category, media, reply, scriptData,
                   calls, response>>

\* Mutant of AfterStitch: on a stitch error the handler neither answers as
\* failed nor as done, and the request is left in the stitch step for good.
AfterStitchHang(err) == IF err # NoError THEN "stitching" ELSE "done"

\* How the request ends once stitchVideos has returned: the 500 and return on
\* an error, the 200 otherwise.
AfterStitch(err) == IF err # NoError THEN "failed" ELSE "done"

\* The response that ends the request once stitchVideos has returned.
StitchReturned(err) ==
    /\ IF err # NoError
       THEN response' = Respond(500, <<Text("Stitch failed: ")>> \o err, NoUrl)
       ELSE \E secure \in BOOLEAN :
               response' = Respond(200, NoError, VideoUrl(secure, "localhost:8080"))
    /\ pc' = AfterStitch(err)

\* The handler calls stitchVideos; the call either returns at its guard or
\* is left waiting for ffmpeg.
StitchStart ==
    /\ pc = "stitch"
    /\ LET r == stitchVideosStart(build, fs, segmentFiles, FinalPath)
       IN  /\ fs' = r.fs
           /\ IF r.started
              THEN /\ pc' = "concat"
                   /\ calls' = [calls EXCEPT !.concat = @ + r.concat]
                   /\ response' = response
              ELSE /\ StitchReturned(r.err)
                   /\ calls' = [calls EXCEPT !.responses = @ + 1]
           /\ probe' = Logged(probe, [i \in 1..r.concat |->
                                         [call |-> "concat", slot |-> "", chunk |-> 0]])
    /\ UNCHANGED <<build, openaiKey, pending, before, n, category, idx, media, reply, scriptData,
                   renderResult, segmentFiles>>

\* ffmpeg opens the list and the clips, the handler waiting.
ConcatRead ==
    /\ pc = "concat"
    /\ pending' = ffmpegConcatRead(fs)
    /\ pc' = "concat_run"
    /\ UNCHANGED <<probe, build, openaiKey, fs, before, n, category, idx, media, reply,
                   scriptData, renderResult, segmentFiles, calls, response>>

\* ffmpeg writes the output file and exits, the handler still waiting.
ConcatExit ==
    /\ pc = "concat_run"
    /\ \E cc \in ExitOutcomes :
          LET r == ffmpegExit(fs, FinalPath, pending, cc)
          IN  /\ fs' = r.fs
              /\ pc' = IF r.ok THEN "concat_ok" ELSE "concat_fail"
    /\ pending' = NoPending
    /\ UNCHANGED <<probe, build, openaiKey, before, n, category, idx, media, reply,
                   scriptData, renderResult, segmentFiles, calls, response>>

\* The handler resumes: stitchVideos returns and the handler answers.
StitchFinish ==
    /\ pc \in {"concat_ok", "concat_fail"}
    /\ StitchReturned(stitchVideosFinish(build, pc = "concat_ok"))
    /\ calls' = [calls EXCEPT !.responses = @ + 1]
    /\ UNCHANGED <<probe, build, openaiKey, pending, fs, before, n, category, idx, media, reply,
                   scriptData, renderResult, segmentFiles>>

Next ==
    \/ Reject \/ Receive \/ SaveMedia \/ MediaDownload \/ GenerateScript
    \/ RenderStart \/ RenderDownload \/ MuxStart \/ MuxRead \/ MuxExit \/ RenderFinish
    \/ StitchStart \/ ConcatRead \/ ConcatExit \/ StitchFinish

Spec == Init /\ [][Next]_vars

\* The same request under the scheduling the program runs with: the handler
\* goroutine is run whenever it can take a step, and every external call it
\* blocks on returns, so no enabled step of the handler waits for ever.
HandlerStep ==
    \/ SaveMedia \/ MediaDownload \/ GenerateScript
    \/ RenderStart \/ RenderDownload \/ MuxStart \/ MuxRead \/ MuxExit \/ RenderFinish
    \/ StitchStart \/ ConcatRead \/ ConcatExit \/ StitchFinish

\* Termination is checked for requests of at most LiveScenes scenes that
\* find output/ empty.
InitLive == Init /\ fs = EmptyDir

ReceiveLive == Receive /\ n' <= LiveScenes

NextLive ==
    \/ Reject \/ ReceiveLive \/ SaveMedia \/ MediaDownload \/ GenerateScript
    \/ RenderStart \/ RenderDownload \/ MuxStart \/ MuxRead \/ MuxExit \/ RenderFinish
    \/ StitchStart \/ ConcatRead \/ ConcatExit \/ StitchFinish

SpecLive == InitLive /\ [][NextLive]_vars /\ WF_vars(HandlerStep)

\* ------------------------------------------------ media resolution alone
\* The media step of the handler with every outcome of an upload, of the
\* media search and of the placeholder service.  saveMedia is the same in all
\* iterations, so the iteration is fixed.
NoFile == [given |-> FALSE, name |-> <<>>]

UploadedFiles ==
    {NoFile} \cup {[given |-> TRUE, name |-> nm] :
                      nm \in {<<"p", "h", "o", "t", "o">>, <<"p", "i", "c", ".", "v", "2", ".", "P", "N", "G">>}}

InitMedia ==
    /\ Init
    /\ build = "main"
    /\ openaiKey

\* One saveMedia call of the handler, its inputs and results kept in probe
\* and looked at once the call has returned.
\* The outcome of a service the call does not reach is left at ok.
ResolveMedia ==
    /\ pc = "media"
    /\ LET slot == MediaOrder(n)[idx]
           tryTMDB == slot \notin {"intro", "outro"}
       IN  \E file \in UploadedFiles, name \in {"", "Inception"},
              tm \in {"no_key", "search_fail", "neterr", "junk", "ok"},
              ph \in {"neterr", "ok"} :
              LET fallbackName == CASE slot = "intro" -> Topic
                                    [] slot = "outro" -> "Thanks for watching!"
                                    [] OTHER -> name
                  upload == IF file.given THEN Ext(file.name) ELSE NoUpload
                  r == saveMedia(fs, slot, fallbackName, tryTMDB, category,
                                 upload, tm, ph)
              IN  /\ file.given => (tm = "ok" /\ ph = "ok")
                  /\ r.searched = 0 /\ r.source = "placeholder" => tm \in {"ok", "no_key"}
                  /\ r.placeholders = 0 => ph = "ok"
                  /\ fs' = r.fs
                  /\ calls' = [calls EXCEPT !.search = @ + r.searched,
                                            !.placeholder = @ + r.placeholders]
                  /\ probe' = [op |-> IF r.coming THEN "saveMedia waits" ELSE "saveMedia",
                               slot |-> slot,
                               label |-> fallbackName, tryTMDB |-> tryTMDB,
                               file |-> file, tm |-> tm, ph |-> ph,
                               path |-> r.path, source |-> r.source,
                               searched |-> r.searched,
                               placeholders |-> r.placeholders]
                  /\ IF r.coming
                     THEN /\ pc' = "fetch"
                          /\ pending' = [ok |-> TRUE, out |-> r.out, at |-> r.path,
                                         source |-> r.source, todo |-> <<>>]
                          /\ UNCHANGED <<idx, media>>
                     ELSE MediaReturned(slot, r.path, r.source)
    /\ UNCHANGED <<build, openaiKey, before, n, category, reply, scriptData,
                   renderResult, segmentFiles, response>>

\* The content is in and the saveMedia call returns.
ResolveDownload ==
    /\ pc = "fetch"
    /\ fs' = WriteFile(fs, pending.at, pending.out)
    /\ MediaReturned(MediaOrder(n)[idx], pending.at, pending.source)
    /\ probe' = [probe EXCEPT !.op = "saveMedia"]
    /\ UNCHANGED <<build, openaiKey, before, n, category, reply, scriptData,
                   renderResult, segmentFiles, calls, response>>

NextMedia == Receive \/ ResolveMedia \/ ResolveDownload

SpecMedia == InitMedia /\ [][NextMedia]_vars

\* ---------------------------------------------------------- splitText alone
\* splitText applied to every text over a small alphabet, under small limits
\* so that sentences and words longer than the limit occur.
Texts == UNION {[1..k -> {"a", " ", ".", "!"}] : k \in 0..MaxTextLen}

ChunkLimits == 3..MaxChunkLimit

\* No request is in progress.
Idle ==
    /\ pc = "idle"
    /\ pending = NoPending
    /\ n = 0
    /\ category = ""
    /\ idx = 0
    /\ media = [s \in {} |-> [path |-> NoPath, source |-> ""]]
    /\ reply = NoReply
    /\ scriptData = ZeroScriptResponse
    /\ renderResult = [s \in {} |-> ""]
    /\ segmentFiles = <<>>
    /\ calls = NoCalls
    /\ response = NoResponse

InitChunk ==
    /\ build \in {"chunked", "padded_chunked"}
    /\ openaiKey = TRUE
    /\ fs = EmptyDir
    /\ before = fs
    /\ Idle
    /\ probe \in {[op |-> "splitText", text |-> t, limit |-> l, done |-> FALSE,
                    chunks |-> <<>>] : t \in Texts, l \in ChunkLimits}

SplitText ==
    /\ probe.op = "splitText" /\ ~probe.done
    /\ probe' = [probe EXCEPT !.done = TRUE,
                              !.chunks = splitText(build, probe.text, probe.limit)]
    /\ UNCHANGED <<build, openaiKey, pending, fs, before, pc, n, category, idx, media, reply,
                   scriptData, renderResult, segmentFiles, calls, response>>

NextChunk == SplitText

SpecChunk == InitChunk /\ [][NextChunk]_vars

\* ------------------------------------------- chunked speech synthesis alone
\* downloadGoogleTTS_Smart on one text, one chunk per step.
ProviderLimit == 180

\* Mutant of AppendAudio: the bytes are written at the front of the file.
PrependAudio(audio, chunk) == <<chunk>> \o audio

\* io.Copy(finalFile, resp.Body): the bytes returned for the chunk are
\* appended to the file.
AppendAudio(audio, chunk) == Append(audio, chunk)

InitSpeech ==
    /\ build \in {"chunked", "padded_chunked"}
    /\ openaiKey = TRUE
    /\ fs = EmptyDir
    /\ before = fs
    /\ Idle
    /\ probe \in {[op |-> "tts", stage |-> "call", text |-> t, chunks |-> <<>>,
                    pos |-> 0, requests |-> <<>>, replies |-> <<>>, audio |-> <<>>,
                    created |-> FALSE, err |-> NoError] : t \in Texts}

\* os.Create(outFile) and splitText(text, 180).
StartSpeech ==
    /\ probe.op = "tts" /\ probe.stage = "call"
    /\ probe' = [probe EXCEPT !.stage = "loop", !.created = TRUE, !.pos = 1,
                              !.chunks = splitText(build, probe.text, ProviderLimit)]
    /\ UNCHANGED <<build, openaiKey, pending, fs, before, pc, n, category, idx, media, reply,
                   scriptData, renderResult, segmentFiles, calls, response>>

\* One turn of the chunk loop: a chunk shorter than two characters after
\* trimming is passed over; any other is requested, and its audio appended
\* if the reply is a 200.
SpeechChunk ==
    /\ probe.op = "tts" /\ probe.stage = "loop" /\ probe.pos <= Len(probe.chunks)
    /\ LET chunk == TrimSpace(probe.chunks[probe.pos])
       IN  IF Len(chunk) < 2
           THEN probe' = [probe EXCEPT !.pos = @ + 1]
           ELSE \E rp \in DownloadOutcomes(build) :
                   probe' = [probe EXCEPT
                                !.pos = @ + 1,
                                !.requests = Append(@, chunk),
                                !.replies = Append(@, rp),
                                !.audio = IF rp = "ok" THEN AppendAudio(@, chunk) ELSE @]
    /\ UNCHANGED <<build, openaiKey, pending, fs, before, pc, n, category, idx, media, reply,
                   scriptData, renderResult, segmentFiles, calls, response>>

\* The loop is over: return nil.
FinishSpeech ==
    /\ probe.op = "tts" /\ probe.stage = "loop" /\ probe.pos > Len(probe.chunks)
    /\ probe' = [probe EXCEPT !.stage = "returned", !.err = NoError]
    /\ UNCHANGED <<build, openaiKey, pending, fs, before, pc, n, category, idx, media, reply,
                   scriptData, renderResult, segmentFiles, calls, response>>

NextSpeech == StartSpeech \/ SpeechChunk \/ FinishSpeech

SpecSpeech == InitSpeech /\ [][NextSpeech]_vars

\* --------------------------------------------- every call of one request
\* The requests of SpecLive again, against every outcome of every service
\* they call, each external call written down as it is made.
InitCalls ==
    /\ build \in Builds
    /\ openaiKey \in (IF build \in OpenAIBuilds THEN BOOLEAN ELSE {TRUE})
    /\ fs = EmptyDir
    /\ before = fs
    /\ Idle
    /\ probe = [op |-> "calls", made |-> <<>>]

SpecCalls == InitCalls /\ [][NextLive]_vars

\* ------------------------------------------------- two requests at a time
\* gin serves every request on a goroutine of its own and the handler takes
\* no lock, so the steps of two requests interleave. The request variables
\* above are those of the goroutine that is running; probe holds those of the
\* goroutine that is waiting. A file tagged req was written by the running
\* request, one tagged other by the waiting one.
Waiting(st) ==
    [op |-> "request", pc |-> st[1], n |-> st[2], category |-> st[3], idx |-> st[4],
     media |-> st[5], reply |-> st[6], scriptData |-> st[7], renderResult |-> st[8],
     segmentFiles |-> st[9], calls |-> st[10], response |-> st[11], pending |-> st[12]]

SwapOwners(f) ==
    [p \in DOMAIN f |->
        [f[p] EXCEPT !.owner = CASE @ = "req" -> "other"
                                 [] @ = "other" -> "req"
                                 [] OTHER -> @]]

\* The second request has arrived too and nothing has run yet.
InitTwo ==
    /\ build \in Builds
    /\ openaiKey = TRUE
    /\ fs = EmptyDir
    /\ before = fs
    /\ Idle
    /\ probe = Waiting(<<"idle", 0, "", 0, media, NoReply, ZeroScriptResponse,
                         renderResult, <<>>, NoCalls, NoResponse, NoPending>>)

\* The scheduler takes the running goroutine off the processor between two
\* steps of its handler and runs the other one.
Switch ==
    /\ probe.op = "request"
    /\ probe' = Waiting(<<pc, n, category, idx, media, reply, scriptData, renderResult,
                          segmentFiles, calls, response, pending>>)
    /\ pc' = probe.pc
    /\ n' = probe.n
    /\ category' = probe.category
    /\ idx' = probe.idx
    /\ media' = probe.media
    /\ reply' = probe.reply
    /\ scriptData' = probe.scriptData
    /\ renderResult' = probe.renderResult
    /\ segmentFiles' = probe.segmentFiles
    /\ calls' = probe.calls
    /\ response' = probe.response
    /\ pending' = probe.pending
    /\ fs' = SwapOwners(fs)
    /\ UNCHANGED <<build, openaiKey, before>>

\* The two requests are the smallest there are: no scenes, and an empty item
\* list from the text-generation service. The speech service and ffmpeg
\* succeed or fail as in one request; ffmpeg fails besides where a file it is
\* to read is not there.
Smooth ==
    /\ n = 0
    /\ category = "movie"
    /\ reply \in {NoReply, [kind |-> "content", raw |-> <<Object("strings", 0)>>]}

ReceiveTwo == Receive /\ Smooth'

SaveMediaTwo == SaveMedia /\ Smooth'

MediaDownloadTwo == MediaDownload /\ Smooth'

GenerateScriptTwo == GenerateScript /\ Smooth'

RenderStartTwo == RenderStart /\ Smooth'

RenderDownloadTwo == RenderDownload /\ Smooth'

MuxStartTwo == MuxStart /\ Smooth'

MuxReadTwo == MuxRead /\ Smooth'

MuxExitTwo == MuxExit /\ Smooth'

RenderFinishTwo == RenderFinish /\ Smooth'

StitchStartTwo == StitchStart /\ Smooth'

ConcatReadTwo == ConcatRead /\ Smooth'

ConcatExitTwo == ConcatExit /\ Smooth'

StitchFinishTwo == StitchFinish /\ Smooth'

NextTwo ==
    \/ ReceiveTwo \/ SaveMediaTwo \/ MediaDownloadTwo \/ GenerateScriptTwo
    \/ RenderStartTwo \/ RenderDownloadTwo \/ MuxStartTwo \/ MuxReadTwo \/ MuxExitTwo \/ RenderFinishTwo
    \/ StitchStartTwo \/ ConcatReadTwo \/ ConcatExitTwo \/ StitchFinishTwo
    \/ Switch

SpecTwo == InitTwo /\ [][NextTwo]_vars

\* ------------------------------------------------------ the mux command alone
\* renderSegment chooses between two ffmpeg commands by the extension of the
\* media path. Here saveMedia resolves the media of a few slots of one
\* request, from uploads of several names or from the fallbacks, and the
\* command renderSegment would run for each is recorded in probe.  An
\* uploaded video has 24 or 30 frames a second.
MaxClips == 2

\* strings.ToLower: every character in lower case, by unicode.ToLower on
\* the characters of ASCII, the alphabet of the names.
ToLower(s) ==
    LET LowerChar(c) ==
            CASE c = "A" -> "a" [] c = "B" -> "b" [] c = "C" -> "c" [] c = "D" -> "d"
              [] c = "E" -> "e" [] c = "F" -> "f" [] c = "G" -> "g" [] c = "H" -> "h"
              [] c = "I" -> "i" [] c = "J" -> "j" [] c = "K" -> "k" [] c = "L" -> "l"
              [] c = "M" -> "m" [] c = "N" -> "n" [] c = "O" -> "o" [] c = "P" -> "p"
              [] c = "Q" -> "q" [] c = "R" -> "r" [] c = "S" -> "s" [] c = "T" -> "t"
              [] c = "U" -> "u" [] c = "V" -> "v" [] c = "W" -> "w" [] c = "X" -> "x"
              [] c = "Y" -> "y" [] c = "Z" -> "z"
              [] OTHER -> c
    IN  [i \in 1..Len(s) |-> LowerChar(s[i])]

\* Mutant of IsVideo: the extension is compared as it is written.
IsVideoCaseSensitive(mediaPath) == mediaPath.ext \in {ExtMp4, ExtMov, ExtAvi}

\* ext := strings.ToLower(filepath.Ext(mediaPath));
\* isVideo := ext == ".mp4" || ext == ".mov" || ext == ".avi"
IsVideo(mediaPath) == ToLower(mediaPath.ext) \in {ExtMp4, ExtMov, ExtAvi}

\* What the ffmpeg command of renderSegment fixes of the encoding. A setting
\* the command does not give is the default of the tool: preset medium, no
\* tune, and as frame rate that of the input, which for a looped image is 25.
\* main.go and the early iteration give preset fast for a video only and
\* 192k; the others give preset ultrafast and 128k, and all of these but the
\* google iteration give the frame rate 30.  The scale filter fixes the
\* frame size and the pixel format.
MuxProfile(b, isVideo, videoType, inputRate) ==
    [vcodec |-> "libx264",
     preset |-> IF b \in OpenAIBuilds THEN (IF isVideo THEN "fast" ELSE "medium")
                ELSE "ultrafast",
     tune |-> IF isVideo THEN "" ELSE "stillimage",
     acodec |-> "aac",
     abitrate |-> IF b \in OpenAIBuilds THEN "192k" ELSE "128k",
     rate |-> IF b \in OpenAIBuilds \cup {"google"}
              THEN (IF isVideo THEN inputRate ELSE 25)
              ELSE 30,
     scale |-> [size |-> IF videoType = "long" THEN "1920:1080" ELSE "1080:1920",
                pixfmt |-> "yuv420p"]]

MuxUploads ==
    {NoFile} \cup {[given |-> TRUE, name |-> nm] :
                      nm \in {<<"p", "h", "o", "t", "o">>, <<"c", "l", "i", "p", ".", "m", "p", "4">>, <<"C", "L", "I", "P", ".", "M", "O", "V">>,
                              <<"p", "i", "c", ".", "v", "2", ".", "P", "N", "G">>,
                              <<"f", "i", "l", "m", ".", "m", "p", "4", ".", "t", "x", "t">>, <<"o", "l", "d", ".", "a", "v", "i">>}}

InitMux ==
    /\ build \in Builds
    /\ openaiKey = TRUE
    /\ fs = EmptyDir
    /\ before = fs
    /\ Idle
    /\ probe \in {[op |-> "mux", videoType |-> vt, clips |-> <<>>] : vt \in {"short", "long"}}

\* saveMedia for the next scene slot, then the command of renderSegment for
\* the path it returned.
MuxSlot ==
    /\ probe.op = "mux" /\ Len(probe.clips) < MaxClips
    /\ \E file \in MuxUploads, tm \in {"search_fail", "ok"} :
          LET slot == SceneSlot(Len(probe.clips))
              upload == IF file.given THEN Ext(file.name) ELSE NoUpload
              r == saveMedia(EmptyDir, slot, "Inception", TRUE, "movie", upload, tm, "ok")
              isVideo == IsVideo(r.path)
          IN  /\ file.given => tm = "ok"
              /\ \E rate \in (IF isVideo THEN {24, 30} ELSE {25}) :
                    probe' = [probe EXCEPT !.clips = Append(@,
                                 [slot |-> slot, file |-> file, source |-> r.source,
                                  path |-> r.path, video |-> isVideo, rate |-> rate,
                                  profile |-> MuxProfile(build, isVideo, probe.videoType,
                                                         rate)])]
    /\ UNCHANGED <<build, openaiKey, pending, fs, before, pc, n, category, idx, media, reply,
                   scriptData, renderResult, segmentFiles, calls, response>>

NextMux == MuxSlot

SpecMux == InitMux /\ [][NextMux]_vars

\* ------------------------------------------------------ derived predicates
ScriptFailed ==
    \/ reply.kind \in {"no_key", "transport", "no_choices"}
    \/ reply.kind = "content" /\ ~Unmarshal(build, StripFences(reply.raw)).ok

ScriptSucceeded ==
    reply.kind = "content" /\ Unmarshal(build, StripFences(reply.raw)).ok

\* The items the service returned, as decoded, before any padding.
Returned == Unmarshal(build, StripFences(reply.raw)).result.Items

\* The slots whose renderSegment call returned nil.
Rendered == {s \in DOMAIN renderResult : renderResult[s] = "ok"}

Surviving(cnt) ==
    LET ok == Rendered
    IN  SelectSeq(SlotOrder(cnt), LAMBDA s : s \in ok)

\* The request has been through stitchVideos.
Stitched == pc \in {"done", "failed"} /\ DOMAIN renderResult # {}

\* A renderSegment call of the request has started and not returned.
InRender == pc \in {"speech", "spoken", "mux", "mux_run", "mux_ok", "mux_fail"}

\* A stitchVideos call of the request has started ffmpeg and not returned.
InStitch == pc \in {"concat", "concat_run", "concat_ok", "concat_fail"}

ManifestWritten == Exists(fs, ListPath) /\ fs[ListPath].owner = "req"

FinalWritten == Exists(fs, FinalPath) /\ fs[FinalPath].owner = "req"

SlotsOf(paths) == [i \in 1..Len(paths) |-> paths[i].slot]

Position(seq, x) == CHOOSE i \in 1..Len(seq) : seq[i] = x

InSlotOrder(slots, cnt) ==
    LET order == SlotOrder(cnt)
        known == Slots(cnt)
        at == [i \in 1..Len(slots) |-> Position(order, slots[i])]
    IN  /\ \A i \in 1..Len(slots) : slots[i] \in known
        /\ \A i, j \in 1..Len(slots) : i < j => at[i] < at[j]

SameFile(f, g, p) ==
    /\ Exists(f, p) <=> Exists(g, p)
    /\ Exists(f, p) => f[p] = g[p]

CarriesRaw(err, raw) ==
    \E i \in 1..Len(err) : err[i].kind = "payload" /\ err[i].body = raw

\* ------------------------------------------------------------------ claims

\* C1: the manifest handed to the concatenation tool lists the surviving
\* segments in the order intro, scene 0 .. scene n-1, outro: every entry is a
\* clip of a slot of the request, no entry is reordered or duplicated, and
\* the list is segmentFiles as the render loop built it.
C1_StitchPreservesOrder ==
    /\ InSlotOrder(SlotsOf(segmentFiles), n)
    /\ ManifestWritten =>
          LET entries == fs[ListPath].list
          IN  /\ [i \in 1..Len(entries) |-> Resolve(entries[i])] = segmentFiles
              /\ \A i \in 1..Len(entries) : Resolve(entries[i]) = SegPath(entries[i].slot)
              /\ InSlotOrder(SlotsOf(entries), n)

\* C1 witness: two scenes, scene 0 failed, and the manifest is intro, 1, outro.
C1_Witness ==
    /\ pc = "done" /\ n = 2 /\ ManifestWritten
    /\ "0" \in DOMAIN renderResult /\ renderResult["0"] = "fail"
    /\ SlotsOf(fs[ListPath].list) = <<"intro", "1", "outro">>

\* C2: a segment failure never aborts the request.  No response is written
\* before stitching; a request that rendered at least one slot fails only if
\* the concatenation was run and failed; and a request that ends in success
\* answers 200 without error, its manifest and its movie holding exactly the
\* slots whose render succeeded: n+2 entries less one for each slot that
\* did not succeed.
C2_SegmentFailureNeverAborts ==
    /\ (pc \in {"media", "fetch", "script", "render", "stitch"} \/ InRender \/ InStitch) =>
          response = NoResponse
    /\ (pc = "failed" /\ Rendered # {}) => (calls.concat = 1 /\ ~FinalWritten)
    /\ pc = "done" =>
          /\ response.status = 200 /\ response.error = NoError
          /\ ManifestWritten /\ FinalWritten
          /\ SlotsOf(fs[ListPath].list) = Surviving(n)
          /\ Len(fs[ListPath].list) = (n + 2) - Cardinality(Slots(n) \ Rendered)
          /\ fs[FinalPath].list = segmentFiles

\* C2 witness: scenario C, two scenes of which scene 1 failed, three segments.
C2_Witness ==
    /\ pc = "done" /\ n = 2 /\ response.status = 200
    /\ Rendered = {"intro", "0", "outro"}
    /\ "1" \in DOMAIN renderResult /\ renderResult["1"] = "fail"
    /\ Len(fs[FinalPath].list) = 3

\* C3 (as claimed): when every render attempt failed, the stitcher fails with
\* NoSegmentsError without invoking the concatenation tool, and the request
\* fails.
C3_NoSegmentsError ==
    (Stitched /\ Rendered = {}) =>
        /\ pc = "failed"
        /\ response.error = <<Text("Stitch failed: ")>> \o NoSegmentsError
        /\ calls.concat = 0

\* C4 (as claimed): when every segment failed to render, the FinalArtifact at
\* the output path is exactly what it was before the request.
C4_NoArtifactTouchedWhenAllFail ==
    (Stitched /\ Rendered = {}) => SameFile(fs, before, FinalPath)

\* C5 (as claimed): Failed is reached only when script generation failed or
\* no segment survived at stitch time.
C5_FailedOnlyScriptOrNoSegments ==
    pc = "failed" => (ScriptFailed \/ (Stitched /\ segmentFiles = <<>>))

\* C5 (amended): Failed is reached only when script generation failed, by
\* an error or by a panic on a reply without choices, when no segment
\* survived at stitch time, or when the concatenation was run and failed;
\* the response is a 500 that names the step that failed, or after a panic
\* the bare 500 of the recovery middleware.
C5_FailedOnlyWhenFatal ==
    pc = "failed" =>
        /\ response.status = 500
        /\ \/ /\ ScriptFailed
              /\ reply.kind = "no_choices" => response = Recovered
              /\ reply.kind # "no_choices" =>
                    response.error[1] = Text(ScriptFailedPrefix(build))
           \/ /\ ScriptSucceeded /\ Stitched
              /\ response.error[1] = Text("Stitch failed: ")
              /\ \/ segmentFiles = <<>>
                 \/ calls.concat = 1 /\ ~FinalWritten

\* C5 witness: a request with a surviving segment whose concatenation failed.
C5_Witness ==
    /\ pc = "failed" /\ ScriptSucceeded
    /\ segmentFiles # <<>> /\ calls.concat = 1

\* C6: after a script generation failure no segment is rendered, no speech is
\* synthesised, nothing is muxed or stitched, and exactly one error response
\* is written.
C6_ScriptFailureIsFatal ==
    ScriptFailed =>
        /\ pc = "failed"
        /\ calls.renders = 0 /\ calls.speech = 0 /\ calls.mux = 0 /\ calls.concat = 0
        /\ DOMAIN renderResult = {} /\ segmentFiles = <<>>
        /\ ~ManifestWritten /\ SameFile(fs, before, FinalPath)
        /\ calls.responses = 1
        /\ response.status = 500 /\ response.video_url = NoUrl

\* C6 witness: the reply was prose, the parse failed and the request failed.
C6_Witness ==
    /\ pc = "failed" /\ reply.kind = "content" /\ reply.raw = <<Prose>>
    /\ calls.script = 1

\* C7 (as claimed): on a JSON-parse failure the error carries the raw reply,
\* and no narration content is returned.
C7_ParseErrorCarriesRaw ==
    (reply.kind = "content" /\ ~Unmarshal(build, StripFences(reply.raw)).ok) =>
        /\ CarriesRaw(response.error, reply.raw)
        /\ scriptData = ZeroScriptResponse

\* C8 (as claimed): whatever number of items the service returned, the items
\* the handler renders from number exactly n.
C8_ItemsLengthIsSceneCount ==
    ScriptSucceeded => Len(scriptData.Items) = n

\* C9 (as claimed): when the service returned k < n items, the items are the
\* k returned ones, unchanged and in order, followed by n-k copies of one
\* filler.
C9_PaddedWithFiller ==
    (ScriptSucceeded /\ Len(Returned) < n) =>
        /\ Len(scriptData.Items) = n
        /\ SubSeq(scriptData.Items, 1, Len(Returned)) = Returned
        /\ \E filler \in {FillerShort, FillerLong} :
              \A i \in (Len(Returned) + 1)..n : scriptData.Items[i] = filler

\* C10: when the service returned k > n items, the list is not truncated,
\* and rendering stops at the scene count: the render attempts are those of
\* intro, scenes 0..n-1 and outro, n+2 in all once rendering is over, and no
\* media or segment file of an index >= n is touched.
C10_ExtraItemsIgnored ==
    LET returned == Returned
    IN  (ScriptSucceeded /\ Len(returned) > n) =>
        /\ scriptData.Items = returned
        /\ DOMAIN renderResult \subseteq Slots(n)
        /\ DOMAIN media = Slots(n)
        /\ \A p \in DOMAIN fs : p.slot \in Slots(n) \cup {""}
        /\ calls.renders = Cardinality(DOMAIN renderResult) + (IF InRender THEN 1 ELSE 0)
        /\ (pc \in {"stitch", "done", "failed"} \/ InStitch) =>
              (DOMAIN renderResult = Slots(n) /\ calls.renders = n + 2)

\* C10 witness: two scenes, three items returned, and the request is done.
C10_Witness ==
    /\ pc = "done" /\ n = 2 /\ Len(scriptData.Items) = 3
    /\ DOMAIN renderResult = {"intro", "0", "1", "outro"}

\* C11 (as claimed): a reply that is one well-formed JSON object, its items
\* plain strings or title and details objects, never makes script generation
\* fail, and each returned item is reduced to its narration string.
C11_EitherShapeAccepted ==
    LET clean == StripFences(reply.raw)
    IN  (reply.kind = "content" /\ Len(clean) = 1 /\ clean[1].tok = "object") =>
            /\ ~(pc = "failed" /\ response.error[1] = Text(ScriptFailedPrefix(build)))
            /\ Len(scriptData.Items) >= Len(clean[1].items)
            /\ \A i \in 1..Len(clean[1].items) :
                  TextToSpeak(build, scriptData.Items[i]) = ItemText(i - 1)

\* C12 (as claimed): for a slot without an upload whose lookup is disabled
\* or failed, saveMedia ends in the placeholder step and returns the slot
\* path without any error response; when the placeholder download succeeded,
\* the file at that path is the placeholder of this request carrying the
\* label (or Scene for an empty label).
C12_PlaceholderFallback ==
    (/\ probe.op = "saveMedia" /\ ~probe.file.given
     /\ (~probe.tryTMDB \/ probe.tm \in {"no_key", "search_fail", "neterr", "junk"})) =>
        /\ probe.source = "placeholder" /\ probe.placeholders = 1
        /\ probe.path = MediaPath(probe.slot, ExtJpg) /\ probe.path # NoPath
        /\ response = NoResponse /\ pc \in {"media", "script"}
        /\ probe.ph = "ok" =>
              /\ Exists(fs, probe.path)
              /\ fs[probe.path].kind = "placeholder" /\ fs[probe.path].owner = "req"
              /\ fs[probe.path].text = IF probe.label = "" THEN "Scene" ELSE probe.label

\* C13: an uploaded file is saved under the slot key with the extension of
\* its name, the part from the last dot on, or .jpg when the name has no
\* dot; the path is returned and neither the media search nor the
\* placeholder service is called for the slot.
C13_UploadWins ==
    (probe.op = "saveMedia" /\ probe.file.given) =>
        LET name == probe.file.name
            dotted == \E i \in 1..Len(name) : name[i] = "."
        IN  /\ probe.source = "upload"
            /\ probe.path.dir = "output" /\ probe.path.stem = "media"
            /\ probe.path.slot = probe.slot
            /\ ~dotted => probe.path.ext = ExtJpg
            /\ dotted => \E i \in 1..Len(name) :
                             /\ name[i] = "."
                             /\ \A j \in (i + 1)..Len(name) : name[j] # "."
                             /\ probe.path.ext = SubSeq(name, i, Len(name))
            /\ Exists(fs, probe.path)
            /\ fs[probe.path].kind = "upload" /\ fs[probe.path].owner = "req"
            /\ probe.searched = 0 /\ probe.placeholders = 0

\* C13 witness: a scene file named without extension was saved as .jpg.
C13_Witness ==
    /\ probe.op = "saveMedia" /\ probe.slot = "0" /\ category = "movie"
    /\ probe.file.given /\ probe.file.name = <<"p", "h", "o", "t", "o">>
    /\ probe.path = MediaPath("0", ExtJpg) /\ fs[probe.path].kind = "upload"

\* C14 (as claimed): without an upload the media search is queried exactly
\* when lookup is enabled for the slot and the label is non-empty, whatever
\* the other request fields; never for intro and outro.  The search key is
\* configuration and is taken to be set.
C14_LookupGatedByFlagAndLabel ==
    (probe.op = "saveMedia" /\ probe.tm # "no_key") =>
        /\ probe.slot \in {"intro", "outro"} => (~probe.tryTMDB /\ probe.searched = 0)
        /\ ~probe.file.given =>
              (probe.searched = 1 <=> (probe.tryTMDB /\ probe.label # ""))

\* C14 (amended): without an upload the media search is queried exactly when
\* lookup is enabled for the slot, the category of the request is movie, the
\* label is non-empty and a search key is configured; never for intro and
\* outro, and never for a slot with an upload.
C14_LookupGatedByCategoryToo ==
    probe.op = "saveMedia" =>
        /\ probe.slot \in {"intro", "outro"} => (~probe.tryTMDB /\ probe.searched = 0)
        /\ probe.file.given => probe.searched = 0
        /\ ~probe.file.given =>
              (probe.searched = 1 <=>
                  (/\ probe.tryTMDB /\ category = "movie" /\ probe.label # ""
                   /\ probe.tm # "no_key"))

\* C14 witness: a named scene of a product request got its placeholder
\* without the search being queried.
C14_Witness ==
    /\ probe.op = "saveMedia" /\ probe.slot = "0" /\ category = "product"
    /\ ~probe.file.given /\ probe.label = "Inception"
    /\ probe.searched = 0 /\ probe.source = "placeholder"

\* C15 (as claimed): whenever the lookup step ran and failed, by a transport
\* error, a bad status, no result or a failed download of the first result,
\* saveMedia goes on to the placeholder, reports nothing, and the slot holds
\* the placeholder when its download succeeded.
C15_LookupFailureFallsThrough ==
    (/\ probe.op = "saveMedia" /\ ~probe.file.given
     /\ probe.tryTMDB /\ category = "movie" /\ probe.label # ""
     /\ probe.tm \in {"search_fail", "neterr", "junk"}) =>
        /\ response = NoResponse
        /\ probe.source = "placeholder" /\ probe.placeholders = 1
        /\ probe.ph = "ok" =>
              (Exists(fs, probe.path) /\ fs[probe.path].kind = "placeholder")

\* C16 (as claimed): when the placeholder download fails, saveMedia returns
\* no path for the slot.
C16_PlaceholderFailureIsError ==
    (/\ probe.op = "saveMedia" /\ probe.source = "placeholder"
     /\ probe.ph = "neterr") =>
        probe.path = NoPath

\* The characters of the chunks, one after the other.
RECURSIVE Flatten(_)
Flatten(chunks) == IF chunks = <<>> THEN <<>> ELSE Head(chunks) \o Flatten(Tail(chunks))

NoSpaces(s) == SelectSeq(s, LAMBDA c : ~IsSpace(c))

\* The chunks the synthesizer sends: trimmed, and at least two characters.
Sent(chunks) ==
    SelectSeq([i \in 1..Len(chunks) |-> TrimSpace(chunks[i])], LAMBDA c : Len(c) >= 2)

\* C17 (as claimed): whatever the text, a single word longer than the limit
\* included, no chunk that is sent is longer than the limit.
C17_ChunksWithinLimit ==
    (probe.op = "splitText" /\ probe.done) =>
        \A i \in 1..Len(Sent(probe.chunks)) : Len(Sent(probe.chunks)[i]) <= probe.limit

\* C18 (as claimed): the chunks in order spell the text again, whitespace
\* apart: no other character is added, dropped or altered.
C18_ChunksSpellTheText ==
    (probe.op = "splitText" /\ probe.done) =>
        NoSpaces(Flatten(probe.chunks)) = NoSpaces(probe.text)

\* The audio of the requests that were answered with a 200, in request order.
Answered(requests, replies) ==
    LET ok == SelectSeq([i \in 1..Len(requests) |-> i], LAMBDA i : replies[i] = "ok")
    IN  [j \in 1..Len(ok) |-> requests[ok[j]]]

\* C19: the requests made so far are the first chunks to send, in text
\* order, none left out and none repeated; the audio file holds the audio of
\* those answered with success, in that same order; and when the call
\* returns every chunk to send has been requested.
C19_AudioInChunkOrder ==
    probe.op = "tts" =>
        LET sent == Sent(probe.chunks)
        IN  /\ Len(probe.requests) <= Len(sent)
            /\ probe.requests = SubSeq(sent, 1, Len(probe.requests))
            /\ probe.audio = Answered(probe.requests, probe.replies)
            /\ probe.stage = "returned" => probe.requests = sent

\* C19 witness: two different chunks, both answered, their audio in order.
C19_Witness ==
    /\ probe.op = "tts" /\ probe.stage = "returned"
    /\ Len(probe.audio) = 2 /\ probe.audio[1] # probe.audio[2]
    /\ probe.audio = probe.requests

\* C20 (as claimed): a chunk whose request failed is passed over and the
\* later chunks are still requested, and the call returns an error exactly
\* when the audio file is empty.
C20_FailsIffAudioEmpty ==
    (probe.op = "tts" /\ probe.stage = "returned") =>
        /\ probe.requests = Sent(probe.chunks)
        /\ (probe.err # NoError) <=> (probe.audio = <<>>)

\* The chunks that hold at least one character that is not whitespace,
\* trimmed as the loop trims them.
NonBlank(chunks) ==
    SelectSeq([i \in 1..Len(chunks) |-> TrimSpace(chunks[i])], LAMBDA c : Len(c) >= 1)

\* C21 (as claimed): when the call has returned, no request was made for an
\* empty or whitespace-only chunk, and every chunk with at least one
\* character that is not whitespace was requested.
C21_OnlyBlankChunksDiscarded ==
    (probe.op = "tts" /\ probe.stage = "returned") =>
        /\ \A i \in 1..Len(probe.requests) : Len(TrimSpace(probe.requests[i])) >= 1
        /\ probe.requests = NonBlank(probe.chunks)

\* The files a request has written and relies on, given its own variables:
\* the media it resolved, the clips it appended, and once it has answered
\* with success, the manifest and the final video.
Relies(p, m, files) ==
    {m[s].path : s \in DOMAIN m} \cup {files[i] : i \in 1..Len(files)}
        \cup (IF p = "done" THEN {ListPath, FinalPath} ELSE {})

Intact(f, owner, paths) ==
    \A p \in paths : Exists(f, p) /\ f[p].owner = owner

\* C22 (as claimed): with two requests in progress at once, every file one
\* of them has written and relies on is still there as that request wrote
\* it: the other request has neither overwritten nor deleted it.
C22_RequestsDoNotShareFiles ==
    probe.op = "request" =>
        /\ Intact(fs, "req", Relies(pc, media, segmentFiles))
        /\ Intact(fs, "other", Relies(probe.pc, probe.media, probe.segmentFiles))

\* C23 (as claimed): when the request has finished, with success or with
\* failure, every intermediate file it created (media, audio, clips, the
\* manifest) has been deleted: of its files only the final video is left.
C23_IntermediatesDeleted ==
    pc \in {"done", "failed"} =>
        \A p \in DOMAIN fs : fs[p].owner = "req" => p = FinalPath

\* The slots the handler has a renderSegment statement for, given the items
\* it renders from.
Planned ==
    LET plan == RenderPlan(scriptData.Items, n)
    IN  {plan[i] : i \in 1..Len(plan)}

\* stitchVideos is the next statement to run, is running or has run.
StitchReached ==
    \/ pc = "stitch" \/ InStitch
    \/ calls.concat > 0
    \/ ManifestWritten
    \/ Stitched

\* C24: stitching is a barrier. Whenever stitchVideos is about to run or has
\* run, no render attempt of the request is pending: the intro, every scene
\* the handler renders and the outro each have their result, success or
\* failure, and no renderSegment call is made from then on.
C24_StitchAfterAllRenders ==
    StitchReached =>
        LET planned == Planned
        IN  /\ {"intro", "outro"} \subseteq DOMAIN renderResult
            /\ DOMAIN renderResult = planned
            /\ \A s \in planned : renderResult[s] \in {"ok", "fail"}
            /\ calls.renders = Cardinality(planned)

\* C24 witness: a request of two scenes has been stitched after four render
\* attempts, one of which failed.
C24_Witness ==
    /\ pc = "done" /\ calls.concat = 1
    /\ n = 2 /\ calls.renders = 4
    /\ renderResult[SceneSlot(0)] = "fail"
    /\ renderResult[SceneSlot(1)] = "ok"

\* C25: no external call is retried, whatever the outcome of the call.  With
\* every call of a request written down as it is made, as (call, slot,
\* chunk), under every outcome of every service: nothing is written down
\* twice, so that script generation and the concatenation were called at
\* most once, the media search, the placeholder service and the mux at most
\* once for any slot, and the speech service at most once for any chunk of
\* the narration of any slot (chunk 0 being the whole text where it is sent
\* in one request); script generation and the concatenation are of no slot,
\* every other call is for a slot of the request, the search for a scene
\* slot; and the calls written down are as many as the request counts.
C25_NoCallRetried ==
    /\ probe.op = "calls"
    /\ LET made == probe.made
           Count(c) == Cardinality({i \in 1..Len(made) : made[i].call = c})
       IN  /\ \A i \in 1..Len(made) : \A j \in (i + 1)..Len(made) : made[i] # made[j]
           /\ \A i \in 1..Len(made) :
                 CASE made[i].call \in {"script", "concat"} ->
                         made[i].slot = "" /\ made[i].chunk = 0
                   [] made[i].call \in {"placeholder", "mux"} ->
                         made[i].slot \in Slots(n) /\ made[i].chunk = 0
                   [] made[i].call = "search" ->
                         made[i].slot \in SceneSlots(n) /\ made[i].chunk = 0
                   [] made[i].call = "speech" ->
                         made[i].slot \in Slots(n) /\ made[i].chunk \in 0..MaxChunks
                   [] OTHER -> FALSE
           /\ Count("script") = calls.script /\ Count("concat") = calls.concat
           /\ Count("search") = calls.search
           /\ Count("placeholder") = calls.placeholder
           /\ Count("mux") = calls.mux
    /\ calls.responses <= 1

\* C25 witness: a finished request of one movie scene in an iteration that
\* asks for the speech chunk by chunk.  The search for the scene failed and
\* so did the placeholder download that followed it, both chunks of the
\* intro were asked for, the mux was run for all three slots and failed for
\* the scene, whose media file is not there, and the two clips were
\* concatenated.
C25_Witness ==
    /\ probe.op = "calls" /\ pc = "done" /\ n = 1 /\ category = "movie"
    /\ build = "chunked"
    /\ probe.made =
          <<[call |-> "placeholder", slot |-> "intro", chunk |-> 0],
            [call |-> "placeholder", slot |-> "outro", chunk |-> 0],
            [call |-> "search", slot |-> "0", chunk |-> 0],
            [call |-> "placeholder", slot |-> "0", chunk |-> 0],
            [call |-> "script", slot |-> "", chunk |-> 0],
            [call |-> "speech", slot |-> "intro", chunk |-> 1],
            [call |-> "speech", slot |-> "intro", chunk |-> 2],
            [call |-> "mux", slot |-> "intro", chunk |-> 0],
            [call |-> "speech", slot |-> "0", chunk |-> 1],
            [call |-> "mux", slot |-> "0", chunk |-> 0],
            [call |-> "speech", slot |-> "outro", chunk |-> 1],
            [call |-> "mux", slot |-> "outro", chunk |-> 0],
            [call |-> "concat", slot |-> "", chunk |-> 0]>>
    /\ ~Exists(fs, MediaPath("0", ExtJpg))
    /\ renderResult["0"] = "fail" /\ Rendered = {"intro", "outro"}

\* The concatenation tool was run for this request and exited non-zero: it
\* ran, and the output path does not hold a video of this request.
ConcatFailed == calls.concat = 1 /\ ~InStitch /\ ~FinalWritten

\* C26: if the concatenation step reports a non-zero status, the stitcher
\* returns an error that carries that status, the request fails with a
\* single error response, and no success response or video URL is returned.
C26_ConcatFailureFailsRequest ==
    ConcatFailed =>
        /\ pc = "failed"
        /\ calls.responses = 1
        /\ response.status = 500
        /\ response.error[1] = Text("Stitch failed: ")
        /\ \E i \in 2..Len(response.error) : response.error[i] = Text("exit status 1")
        /\ response.video_url = NoUrl

\* C26 witness: the intro, one scene and the outro were all rendered, the
\* tool ran on the three clips and failed, and the request has failed.
C26_Witness ==
    /\ ConcatFailed /\ pc = "failed"
    /\ n = 1 /\ Len(segmentFiles) = 3

\* C27: whenever concatenation is attempted, a final video left by an
\* earlier request is removed before the tool runs, so that afterwards the
\* output path holds the video this request produced or nothing at all.
C27_StaleArtifactRemoved ==
    calls.concat >= 1 =>
        \/ ~Exists(fs, FinalPath)
        \/ /\ fs[FinalPath].owner = "req"
           /\ fs[FinalPath].list =
                 [i \in 1..Len(segmentFiles) |-> segmentFiles[i]]

\* C27 witness: an earlier final video was there when the request arrived,
\* the tool ran and failed, and the output path is empty.
C27_Witness ==
    /\ Exists(before, FinalPath) /\ before[FinalPath].owner = "earlier"
    /\ calls.concat = 1 /\ segmentFiles # <<>>
    /\ ~Exists(fs, FinalPath)

\* C28 (as claimed): once the script has been generated for a request of n
\* scenes and the render code has been left, renderSegment has been called
\* exactly once for each slot: the intro, each of the n scenes and the outro,
\* whatever the outcome of the other slots.
C28_OneRenderPerSlot ==
    (ScriptSucceeded /\ StitchReached) =>
        /\ DOMAIN renderResult = Slots(n)
        /\ calls.renders = n + 2

\* The phases a request can go to in one step of the handler from phase p:
\* media resolution, script generation, rendering and stitching follow one
\* another, and a request fails out of script generation or stitching only.
Successors(p) ==
    CASE p = "idle" -> {"media", "rejected"}
      [] p = "media" -> {"media", "fetch", "script"}
      [] p = "fetch" -> {"media", "script"}
      [] p = "script" -> {"render", "failed"}
      [] p = "render" -> {"render", "speech", "stitch"}
      [] p = "speech" -> {"speech", "spoken"}
      [] p = "spoken" -> {"mux"}
      [] p = "mux" -> {"mux_run"}
      [] p = "mux_run" -> {"mux_ok", "mux_fail"}
      [] p \in {"mux_ok", "mux_fail"} -> {"render", "stitch"}
      [] p = "stitch" -> {"concat", "done", "failed"}
      [] p = "concat" -> {"concat_run"}
      [] p = "concat_run" -> {"concat_ok", "concat_fail"}
      [] p = "concat_ok" -> {"done"}
      [] p = "concat_fail" -> {"failed"}
      [] OTHER -> {}

Finished == pc \in {"done", "failed"}

\* C29: a request whose scene list parsed goes through the phases in the
\* order media, script, render, stitch only, never goes back to a phase it
\* has left, takes no step once it is done or failed, has answered exactly
\* once when it is done or failed, and, every external call returning,
\* does end up done or failed.
C29_PhasesInOrderAndTerminates ==
    /\ [][pc' \in Successors(pc)]_vars
    /\ [](Finished => calls.responses = 1)
    /\ (pc = "media") ~> Finished

\* C29 witness: a request of one scene went through all four phases and is
\* done.
C29_Witness ==
    /\ pc = "done" /\ n = 1
    /\ Cardinality(DOMAIN media) = 3 /\ ScriptSucceeded
    /\ calls.renders = 3 /\ calls.concat = 1

\* The audio files of the slots, whoever wrote them.
AudioFiles == {p \in DOMAIN fs : p.ext = ExtMp3}

\* C30: whenever renderSegment has returned, on mux success, on mux failure
\* or on a synthesis failure, no temporary audio file it created is left:
\* output/ holds an audio file only while a call is waiting for the speech
\* or for ffmpeg, and
\* then only the one of the slot being rendered.
C30_AudioRemovedOnReturn ==
    /\ IF InRender
       THEN AudioFiles = {AudioPath(SegPath(RenderPlan(scriptData.Items, n)[idx]))}
       ELSE AudioFiles = {}
    /\ \A s \in DOMAIN renderResult : ~Exists(fs, AudioPath(SegPath(s)))

\* C30 witness: of the renders of a request one wrote its audio and failed
\* at the mux, another wrote its audio and succeeded, and no audio is left.
C30_Witness ==
    /\ (pc \in {"stitch", "done", "failed"} \/ InStitch)
    /\ calls.mux >= 2 /\ calls.mux > Cardinality(Rendered)
    /\ Rendered # {}
    /\ AudioFiles = {}

\* The words of the chunks, chunk after chunk.
RECURSIVE WordsOf(_)
WordsOf(chunks) ==
    IF chunks = <<>> THEN <<>> ELSE Fields(Head(chunks)) \o WordsOf(Tail(chunks))

\* The length a chunk would have with one more word joined to it by a space.
Joined(chunk, word) ==
    IF chunk = <<>> THEN Len(word) ELSE Len(chunk) + 1 + Len(word)

\* The text is one sentence unit, without sentence punctuation, and longer
\* than the limit.
OneLongUnit ==
    /\ probe.op = "splitText" /\ probe.done
    /\ \A i \in 1..Len(probe.text) : probe.text[i] \notin {".", "!", "?"}
    /\ Len(TrimSpace(probe.text)) > probe.limit

\* C31 (as claimed): for a sentence unit longer than the limit the words are
\* packed greedily. The words of the chunks, in order, are the words of the
\* unit, each whole and once (the last one may have gained the period of the
\* unit), and a chunk ends only where joining the next word to it would have
\* made it longer than the limit.
C31_GreedyWordPacking ==
    OneLongUnit =>
        /\ WordsOf(probe.chunks) \in {Fields(probe.text),
                                      Fields(TrimSpace(probe.text) \o <<".">>)}
        /\ \A i \in 1..(Len(probe.chunks) - 1) :
              Joined(probe.chunks[i], Head(Fields(probe.chunks[i + 1]))) > probe.limit

\* C38 (as claimed): whatever the text and the limit, no element of the
\* result of splitText is the empty string.
C38_NoEmptyChunk ==
    (probe.op = "splitText" /\ probe.done) =>
        \A i \in 1..Len(probe.chunks) : probe.chunks[i] # <<>>

\* C32: a clip is handed to the stitcher exactly when the render of its slot
\* returned success. The list the handler builds is the clip paths of the
\* slots rendered with success, in slot order; each of those clips was
\* written by the mux of this request; the mux tool was run for exactly the
\* render calls whose synthesis reported no error; and no more slots
\* succeeded than mux runs were made.
C32_SegmentOnlyIfMuxed ==
    /\ SlotsOf(segmentFiles) = Surviving(n)
    /\ \A i \in 1..Len(segmentFiles) : segmentFiles[i] = SegPath(segmentFiles[i].slot)
    /\ \A s \in Rendered :
          /\ Exists(fs, SegPath(s))
          /\ fs[SegPath(s)].owner = "req" /\ fs[SegPath(s)].kind = "clip"
    /\ calls.mux + calls.speechErrors + (IF pc \in {"speech", "spoken"} THEN 1 ELSE 0)
          = calls.renders
    /\ Cardinality(Rendered) <= calls.mux

\* C32 witness: of three slots one failed at the synthesis, one at the mux
\* and one succeeded, and only the last is in the list.
C32_Witness ==
    /\ pc = "stitch" /\ calls.renders = 3
    /\ calls.speechErrors = 1 /\ calls.mux = 2
    /\ Cardinality(Rendered) = 1 /\ Len(segmentFiles) = 1

\* The caller was told of success or given a video URL.
SuccessReturned == response.status = 200 \/ response.video_url # NoUrl \/ pc = "done"

\* C33: a success response with the URL of the final video is returned only
\* if at least one segment of this request was rendered with success and the
\* concatenation was run and succeeded; and a final video of this request
\* exists only if at least one of its segments was rendered with success.
C33_SuccessNeedsASegment ==
    /\ SuccessReturned =>
          /\ Rendered # {} /\ segmentFiles # <<>>
          /\ calls.concat = 1 /\ FinalWritten
          /\ response.status = 200 /\ response.video_url # NoUrl
    /\ FinalWritten =>
          /\ Rendered # {}
          /\ fs[FinalPath].list # <<>>
          /\ \A i \in 1..Len(fs[FinalPath].list) :
                fs[FinalPath].list[i].slot \in Rendered

\* C33 witness: only the outro of a request of one scene was rendered, and
\* the request is done with a final video of that one clip.
C33_Witness ==
    /\ pc = "done" /\ n = 1 /\ calls.renders = 3
    /\ Rendered = {"outro"}
    /\ FinalWritten /\ Len(fs[FinalPath].list) = 1
    /\ response.video_url # NoUrl

\* C34 (as claimed): all clips of one request are encoded with one profile,
\* whether their visual source is an image or a video: video codec and
\* encoder settings, audio codec and bitrate, frame rate, pixel format and
\* frame size are the same for any two of them.
C34_OneEncodingProfile ==
    probe.op = "mux" =>
        \A i, j \in 1..Len(probe.clips) :
            probe.clips[i].profile = probe.clips[j].profile

\* The index of a scene slot.
SceneIndex(s) == CHOOSE i \in 0..MaxScenes : SceneSlot(i) = s

\* The script has a narration for the slot: the intro and the outro always,
\* scene i if the items the handler renders from have an element i.
HasNarration(s) ==
    s \in {"intro", "outro"} \/ SceneIndex(s) < Len(scriptData.Items)

\* The narration of a slot: the intro text, the outro text, or for scene i
\* the narration string of items[i].
Narration(s) ==
    CASE s = "intro" -> scriptData.Intro
      [] s = "outro" -> scriptData.Outro
      [] OTHER -> TextToSpeak(build, scriptData.Items[SceneIndex(s) + 1])

\* The clip of every slot rendered with success was made from the narration
\* of that slot and from the media resolved for that slot.
ClipsAligned ==
    \A s \in Rendered :
        /\ Exists(fs, SegPath(s))
        /\ fs[SegPath(s)].text = Narration(s)
        /\ fs[SegPath(s)].media = media[s].path
        /\ media[s].path.slot = s
        /\ (s \notin {"intro", "outro"} /\ SceneIndex(s) < Len(Returned)) =>
              Narration(s) = TextToSpeak(build, Returned[SceneIndex(s) + 1])

\* C35 (as claimed): each slot resolves to one visual source and one
\* narration string and they stay aligned. Once the media are resolved every
\* slot of the request has its media path; once the script is there every
\* slot has its narration; and every clip is made from the narration and the
\* media of its own slot.
C35_SlotsStayAligned ==
    /\ (pc \in {"script", "render", "stitch", "done"} \/ InRender \/ InStitch) =>
          DOMAIN media = Slots(n)
    /\ (ScriptSucceeded /\ (pc \in {"render", "stitch", "done", "failed"} \/ InRender
                            \/ InStitch)) =>
          \A s \in Slots(n) : HasNarration(s)
    /\ ClipsAligned

\* The upload names whose last extension, in lower case, is .mp4, .mov or
\* .avi.
VideoNames == {<<"c", "l", "i", "p", ".", "m", "p", "4">>, <<"C", "L", "I", "P", ".", "M", "O", "V">>, <<"o", "l", "d", ".", "a", "v", "i">>}

\* C36: the kind of a visual source follows from the extension of the
\* resolved file alone, compared without regard to case: a clip is muxed as
\* a video exactly when it comes from an upload whose name ends in .mp4, .mov
\* or .avi in any case. Every lookup or placeholder result is an image, and
\* so is an upload whose name has no extension, which is stored as .jpg.
C36_KindFromExtension ==
    probe.op = "mux" =>
        \A i \in 1..Len(probe.clips) :
            LET c == probe.clips[i]
            IN  /\ c.video <=> (c.file.given /\ c.file.name \in VideoNames)
                /\ c.source \in {"lookup", "placeholder"} =>
                      ~c.video /\ c.path.ext = ExtJpg
                /\ (c.file.given /\ c.file.name = <<"p", "h", "o", "t", "o">>) =>
                      ~c.video /\ c.path.ext = ExtJpg

\* C36 witness: one request whose first scene is an upload named CLIP.MOV,
\* muxed as a video, and whose second is an upload named photo, stored as
\* .jpg and muxed as an image.
C36_Witness ==
    /\ probe.op = "mux" /\ Len(probe.clips) = 2
    /\ probe.clips[1].file.name = <<"C", "L", "I", "P", ".", "M", "O", "V">> /\ probe.clips[1].video
    /\ probe.clips[2].file.name = <<"p", "h", "o", "t", "o">> /\ ~probe.clips[2].video
    /\ probe.clips[2].path.ext = ExtJpg

\* C37: a request whose scene list does not parse is answered with 400 and
\* has no other effect: the one response is the only call counted, no media
\* file is written, no script is asked for, no segment is rendered, and the
\* files under output, an earlier final video among them, are as they were
\* when the request arrived.
C37_RejectedBeforeAnyEffect ==
    pc = "rejected" =>
        /\ response = Respond(400, <<Text("Invalid scenes JSON")>>, NoUrl)
        /\ calls = [NoCalls EXCEPT !.responses = 1]
        /\ fs = before
        /\ DOMAIN media = {} /\ DOMAIN renderResult = {} /\ segmentFiles = <<>>
        /\ reply = NoReply /\ scriptData = ZeroScriptResponse

\* C37 witness: a request was rejected while the final video of an earlier
\* request is on disk.
C37_Witness ==
    /\ pc = "rejected" /\ response.status = 400
    /\ Exists(fs, FinalPath) /\ fs[FinalPath].owner = "earlier"

====
